---- MODULE Spec2Model ----
(***************************************************************************)
(* A model of the oxidegb emulator core: the instruction-stepped CPU, the *)
(* interrupt registers of the MMU, the joypad and timer of the IO block   *)
(* and the per-tick state machine of the PPU.                             *)
(*                                                                         *)
(* Bytes are naturals below 256, 16-bit words naturals below 65536; a     *)
(* FlagSet is the set of the bit positions that are set.  The cartridge   *)
(* with its mappers, the registers of the APU, work RAM and the OAM-DMA   *)
(* copier of the MMU are modelled too.  A byte read from a region whose   *)
(* content is not modelled (high RAM, a ROM image left open) is an input  *)
(* of the step.                                                            *)
(***************************************************************************)
EXTENDS Integers, Sequences, FiniteSets, TLC

VARIABLES
    registers,        \* Cpu.registers (a, f, b..l, sp, pc, ime)
    enable_ime,       \* Cpu.enable_ime
    cycles,           \* Cpu.cycles
    execution_state,  \* Cpu.execution_state
    interrupt_flags,  \* Mmu.interrupt_flags (IF), a set of interrupt bits
    interrupt_enable, \* Mmu.interrupt_enable (IE), a set of interrupt bits
    ie_value,         \* Mmu.ie_value, the last byte written to IE
    buttons,          \* Io.buttons
    timer,            \* Io.timer
    ppu,              \* Mmu.ppu (timing state; pixel values are not modelled)
    wram,             \* Mmu.wram, the cells written so far (the others hold 0)
    dma,              \* Mmu.dma
    cart,             \* Mmu.cartridge
    apu,              \* Mmu.apu
    bus,              \* the last access to the Mmu and what it returned (see Bus)
    panicked,         \* the process aborted on a panic (todo!())
    ret,              \* value returned by the last run_instruction
    nticks,           \* bus ticks issued by the last run_instruction
    last_op,          \* what the last step did (see Op)
    log,              \* history of the last PPU / timer tick (observation only)
    writes,           \* the bus writes of the last step, <<address, value>> in order
    line_ticks,       \* PPU ticks with the LCD on since the current line began
    frame_ticks,      \* PPU ticks with the LCD on since line 0 began
    frames,           \* times LY has wrapped from 153 to 0
    frame_vblanks     \* VBlank interrupts the PPU raised since line 0 began

vars == <<registers, enable_ime, cycles, execution_state, interrupt_flags,
          interrupt_enable, ie_value, buttons, timer, ppu, wram, dma, cart, apu,
          bus, panicked, ret, nticks, last_op, log, writes, line_ticks,
          frame_ticks, frames, frame_vblanks>>

----------------------------------------------------------------------------
(* Bit arithmetic on naturals.                                             *)

Pow2(n) == 2 ^ n

Bit(v, i) == (v \div Pow2(i)) % 2

\* FlagSet::bits of a set of bit positions
RECURSIVE BitsOf(_)
BitsOf(S) == IF S = {} THEN 0
             ELSE LET i == CHOOSE x \in S : TRUE IN Pow2(i) + BitsOf(S \ {i})

\* v & mask, for a mask given as a set of bit positions
AndMask(v, S) == BitsOf({i \in S : Bit(v, i) = 1})

\* v | w for bytes
OrByte(v, w) == BitsOf({i \in 0..7 : Bit(v, i) = 1 \/ Bit(w, i) = 1})

Wrap16(v) == v % 65536

----------------------------------------------------------------------------
(* Interrupts.                                                             *)

VBlank == 0
LcdStat == 1
Timer == 2
Serial == 3
Joypad == 4

Interrupt == {VBlank, LcdStat, Timer, Serial, Joypad}

\* FlagSet::<Interrupt>::new_truncated
InterruptsTruncated(value) == {i \in Interrupt : Bit(value, i) = 1}

InterruptAddress(i) ==
    CASE i = VBlank -> 64
      [] i = LcdStat -> 72
      [] i = Timer -> 80
      [] i = Serial -> 88
      [] i = Joypad -> 96

----------------------------------------------------------------------------
(* Joypad (io.rs, Buttons).  directions and buttons are the two nibbles,   *)
(* a cleared bit is a pressed key.                                         *)

Button == {"Down", "Up", "Left", "Right", "Start", "Select", "A", "B"}

\* Button::bit, as the position of the bit in the nibble
ButtonBit(b) ==
    CASE b \in {"Right", "A"} -> 0
      [] b \in {"Left", "B"} -> 1
      [] b \in {"Up", "Select"} -> 2
      [] b \in {"Down", "Start"} -> 3

ButtonLine(b) ==
    IF b \in {"Down", "Up", "Left", "Right"} THEN "Directions" ELSE "Buttons"

\* x & y on nibbles
AndNibble(x, y) == BitsOf({i \in 0..3 : Bit(x, i) = 1 /\ Bit(y, i) = 1})

InputLineBits(line) ==
    CASE line = "Directions" -> 16
      [] line = "Buttons" -> 32
      [] line = "Both" -> 48
      [] line = "None" -> 0

ButtonsNew ==
    [directions |-> 15, buttons |-> 15, current_line |-> "None",
     interrupt_raised |-> FALSE]

ButtonsReadNibble(bt) ==
    CASE bt.current_line = "Directions" -> bt.directions
      [] bt.current_line = "Buttons" -> bt.buttons
      [] bt.current_line = "Both" -> 15
      [] bt.current_line = "None" -> AndNibble(bt.buttons, bt.directions)

ButtonsRead(bt) == 192 + InputLineBits(bt.current_line) + ButtonsReadNibble(bt)

ButtonsWrite(bt, value) ==
    LET sel == (value \div 16) % 4
        line == CASE sel = 1 -> "Buttons"
                  [] sel = 2 -> "Directions"
                  [] sel = 3 -> "Both"
                  [] sel = 0 -> "None"
        b1 == [bt EXCEPT !.current_line = line]
    IN IF ButtonsReadNibble(b1) # 15
       THEN [b1 EXCEPT !.interrupt_raised = TRUE]
       ELSE b1

ButtonsSetButton(bt, button, set) ==
    LET b1 == IF set /\ ButtonsReadNibble(bt) = 15
              THEN [bt EXCEPT !.interrupt_raised = TRUE]
              ELSE bt
        old == IF ButtonLine(button) = "Directions" THEN b1.directions ELSE b1.buttons
        i == ButtonBit(button)
        new == IF set
               THEN old - Bit(old, i) * Pow2(i)
               ELSE old + (1 - Bit(old, i)) * Pow2(i)
    IN IF ButtonLine(button) = "Directions"
       THEN [b1 EXCEPT !.directions = new]
       ELSE [b1 EXCEPT !.buttons = new]

----------------------------------------------------------------------------
(* Timer (io.rs, Timer).                                                   *)

\* InputClock::bit, as the position of the selected bit of the divider
InputClockBit(clock) ==
    CASE clock = 0 -> 10
      [] clock = 1 -> 4
      [] clock = 2 -> 6
      [] clock = 3 -> 8

TimerNew ==
    [divider |-> 0, counter |-> 0, modulo |-> 0, enabled |-> FALSE,
     input_clock |-> 0, apu_inc_div |-> FALSE, state |-> "Normal"]

TimerIncreaseCounter(t) ==
    IF t.counter = 255
    THEN [t EXCEPT !.counter = 0, !.state = "Overflowed"]
    ELSE [t EXCEPT !.counter = @ + 1]

\* a faulty tick that counts only the high-to-low edge of InputClock::bit
TimerTickFallingEdge(t) ==
    LET old_divider == t.divider
        divider == Wrap16(t.divider + 4)
        apu_inc_div == (divider = 32) \/ t.apu_inc_div
        t1 == [t EXCEPT !.divider = divider, !.apu_inc_div = FALSE]
    IN IF ~t.enabled
       THEN [timer |-> t1, timer_overflow |-> FALSE, apu_inc_div |-> apu_inc_div]
       ELSE IF t.state = "Normal"
       THEN [timer |-> IF Bit(old_divider, InputClockBit(t.input_clock)) = 1
                          /\ Bit(divider, InputClockBit(t.input_clock)) = 0
                       THEN TimerIncreaseCounter(t1)
                       ELSE t1,
             timer_overflow |-> FALSE, apu_inc_div |-> apu_inc_div]
       ELSE [timer |-> [t1 EXCEPT !.counter = t.modulo, !.state = "Normal"],
             timer_overflow |-> TRUE, apu_inc_div |-> apu_inc_div]

\* Timer::tick: the timer after the tick and the TimerTick it returns
TimerTick(t) ==
    LET old_divider == t.divider
        divider == Wrap16(t.divider + 4)
        apu_inc_div == (divider = 32) \/ t.apu_inc_div
        t1 == [t EXCEPT !.divider = divider, !.apu_inc_div = FALSE]
    IN IF ~t.enabled
       THEN [timer |-> t1, timer_overflow |-> FALSE, apu_inc_div |-> apu_inc_div]
       ELSE IF t.state = "Normal"
       THEN [timer |-> IF Bit(old_divider, InputClockBit(t.input_clock))
                          # Bit(divider, InputClockBit(t.input_clock))
                       THEN TimerIncreaseCounter(t1)
                       ELSE t1,
             timer_overflow |-> FALSE, apu_inc_div |-> apu_inc_div]
       ELSE [timer |-> [t1 EXCEPT !.counter = t.modulo, !.state = "Normal"],
             timer_overflow |-> TRUE, apu_inc_div |-> apu_inc_div]

TimerRead(t, address) ==
    CASE address = 65284 -> t.divider \div 256
      [] address = 65285 -> t.counter
      [] address = 65286 -> t.modulo
      [] address = 65287 -> 248 + (IF t.enabled THEN 4 ELSE 0) + t.input_clock

TimerWrite(t, address, value) ==
    CASE address = 65284 ->
           LET t1 == IF Bit(t.divider, InputClockBit(t.input_clock)) = 1
                     THEN TimerIncreaseCounter(t)
                     ELSE t
               t2 == IF Bit(t.divider, 4) = 1
                     THEN [t1 EXCEPT !.apu_inc_div = TRUE]
                     ELSE t1
           IN [t2 EXCEPT !.divider = 0]
      [] address = 65285 -> [t EXCEPT !.counter = value]
      [] address = 65286 -> [t EXCEPT !.modulo = value]
      [] address = 65287 ->
           LET old_enabled == t.enabled
               old_div_bit == Bit(t.divider, InputClockBit(t.input_clock))
               t1 == [t EXCEPT !.enabled = (Bit(value, 2) = 1),
                               !.input_clock = value % 4]
               new_div_bit == Bit(t1.divider, InputClockBit(t1.input_clock))
           IN IF (old_enabled /\ ~t1.enabled /\ old_div_bit # 0)
                 \/ (~old_enabled /\ t1.enabled /\ old_div_bit = 0 /\ new_div_bit # 0)
              THEN TimerIncreaseCounter(t1)
              ELSE t1

----------------------------------------------------------------------------
(* Io (io.rs, Io): the joypad and the timer behind FF00-FF07.              *)

\* what Io::tick returns for the TimerTick tt
IoTickResult(bt, tt) ==
    [timer |-> tt.timer,
     interrupts |-> (IF bt.interrupt_raised THEN {Joypad} ELSE {})
                    \cup (IF tt.timer_overflow THEN {Timer} ELSE {}),
     apu_inc_div |-> tt.apu_inc_div]

\* Io::tick: the buttons are left alone, the timer ticks
IoTick(bt, t) == IoTickResult(bt, TimerTick(t))

\* Io::tick_stopped
IoTickStopped(bt) == IF bt.interrupt_raised THEN {Joypad} ELSE {}

----------------------------------------------------------------------------
(* PPU (ppu/mod.rs, ppu/pixel_transfer.rs): the per-tick state machine.   *)
(* The colour of a pixel never decides how long a mode lasts, so VRAM,    *)
(* the palettes, the screen and the content of the FIFOs are left out:    *)
(* a FIFO is its length, a fetcher action its kind and sprite index.      *)

OAM_SIZE == 160
LCD_SIZE_X == 160
LCD_SIZE_Y == 144
LAST_VISIBLE_LINE == 143
CYCLES_PER_LINE == 114
LINES_PER_FRAME == 154
MAX_VISIBLE_SPRITES == 10

HBlankMode == 0
VBlankMode == 1
OamSearchMode == 2
PixelTransferMode == 3

\* Fetcher::new
FetcherNew ==
    [action |-> "BgReadStartTile", index |-> 0, waiting_cycle |-> FALSE,
     tile_map_index |-> 0]

\* Fetcher::start_line
FetcherStartLine(f) ==
    [action |-> "BgReadStartTile", index |-> 0, waiting_cycle |-> f.waiting_cycle,
     tile_map_index |-> 0]

\* Fetcher::start_window
FetcherStartWindow(f) ==
    [action |-> "BgReadTile", index |-> 0, waiting_cycle |-> f.waiting_cycle,
     tile_map_index |-> 0]

\* Action::pending_obj
PendingObj(action) ==
    action \in {"ObjReadAttr", "ObjReadDataL", "ObjReadDataH", "ObjWait"}

\* check_for_obj: the first visible sprite after position last whose x is
\* x_pos, positions counted from 1; 0 when there is none (None)
CheckForObj(objs, last, x_pos) ==
    LET hits == {i \in (last + 1)..Len(objs) : objs[i].x = x_pos}
    IN IF hits = {} THEN 0 ELSE CHOOSE i \in hits : \A j \in hits : i <= j

\* the action after a line of pixels went into a FIFO
AfterPush(f, objs, last, x_pos) ==
    IF CheckForObj(objs, last, x_pos) # 0
    THEN [f EXCEPT !.action = "ObjReadAttr", !.index = last]
    ELSE [f EXCEPT !.action = "BgReadTile", !.index = 0]

\* Fetcher::tick: the fetcher and the two FIFO lengths after it, and
\* whether a sprite fetch is pending
FetcherTick(f, bg_size, obj_size, objs, x_pos) ==
    LET f0 == [f EXCEPT !.waiting_cycle = ~f.waiting_cycle]
        same(g) == [fetcher |-> g, bg_size |-> bg_size, obj_size |-> obj_size,
                    pending |-> PendingObj(g.action)]
        bgpush(g) ==
            IF bg_size = 0
            THEN [fetcher |-> AfterPush(g, objs, 0, x_pos), bg_size |-> 8,
                  obj_size |-> obj_size,
                  pending |-> PendingObj(AfterPush(g, objs, 0, x_pos).action)]
            ELSE same([g EXCEPT !.action = "BgWait"])
        objpush(g) ==
            [fetcher |-> AfterPush(g, objs, g.index, x_pos), bg_size |-> bg_size,
             obj_size |-> 8,
             pending |-> PendingObj(AfterPush(g, objs, g.index, x_pos).action)]
    IN IF f.waiting_cycle THEN same(f0)
       ELSE CASE f.action = "ObjReadAttr" ->
                   same([f0 EXCEPT !.action = "ObjReadDataL",
                                   !.index = CheckForObj(objs, f.index, x_pos)])
              [] f.action = "ObjReadDataL" -> same([f0 EXCEPT !.action = "ObjReadDataH"])
              [] f.action = "ObjReadDataH" -> objpush(f0)
              [] f.action = "ObjWait" -> objpush(f0)
              [] f.action = "BgReadStartTile" ->
                   same([f0 EXCEPT !.action = "BgReadStartDataL"])
              [] f.action = "BgReadStartDataL" ->
                   same([f0 EXCEPT !.action = "BgReadStartDataH"])
              [] f.action = "BgReadStartDataH" -> bgpush(f0)
              [] f.action = "BgReadTile" ->
                   same([f0 EXCEPT !.action = "BgReadDataL",
                                   !.tile_map_index = (@ + 1) % 32])
              [] f.action = "BgReadDataL" -> same([f0 EXCEPT !.action = "BgReadDataH"])
              [] f.action = "BgReadDataH" -> bgpush(f0)
              [] f.action = "BgWait" -> bgpush(f0)

\* LcdControl fields read from the byte last written to LCDC
LcdEnable(p) == Bit(p.lcdc, 7) = 1
WindowEnable(p) == Bit(p.lcdc, 5) = 1
ObjHeight(p) == IF Bit(p.lcdc, 2) = 1 THEN 16 ELSE 8

\* LcdStatus: the interrupt enables are bits 6..3 of the byte written to STAT
CoincidenceInterruptEnabled(p) == Bit(p.stat_enable, 6) = 1
OamInterruptEnabled(p) == Bit(p.stat_enable, 5) = 1
VblankInterruptEnabled(p) == Bit(p.stat_enable, 4) = 1
HblankInterruptEnabled(p) == Bit(p.stat_enable, 3) = 1

\* Ppu::new
PpuNew ==
    [lcdc |-> 16, stat_enable |-> 0, lyc_coincidence |-> FALSE,
     mode |-> OamSearchMode,
     vram |-> <<>>,
     oam |-> [i \in 0..(OAM_SIZE - 1) |-> 0],
     bg_fifo |-> 0, obj_fifo |-> 0, fetcher |-> FetcherNew,
     visible_objs |-> <<>>, dma |-> -1, dma_address |-> 0, oam_index |-> 0,
     scroll_y |-> 0, scroll_x |-> 0, to_discard_x |-> 0, x_pos |-> 0,
     line_y |-> 0, line_y_compare |-> 0, line_y_window |-> 0,
     window_triggered |-> FALSE, window_y |-> 0, window_x |-> 0,
     line_cycles_count |-> 0]

\* Ppu::new_post_bootrom
PpuNewPostBootrom == [PpuNew EXCEPT !.lcdc = 144]

\* a faulty tick_oam_search that moves on by half a sprite
TickOamSearchHalfSprite(p) ==
    [p EXCEPT !.visible_objs = IF /\ Len(@) < MAX_VISIBLE_SPRITES
                                  /\ p.oam[p.oam_index + 1] # 0
                                  /\ p.oam[p.oam_index] <= p.line_y + 16
                                  /\ p.line_y + 16 < p.oam[p.oam_index] + ObjHeight(p)
                               THEN Append(@, [x |-> p.oam[p.oam_index + 1],
                                               y |-> p.oam[p.oam_index]])
                               ELSE @,
              !.oam_index = @ + 2]

\* Ppu::tick_oam_search
TickOamSearch(p) ==
    LET y == p.oam[p.oam_index]
        x == p.oam[p.oam_index + 1]
        keep == /\ Len(p.visible_objs) < MAX_VISIBLE_SPRITES
                /\ x # 0
                /\ y <= p.line_y + 16
                /\ p.line_y + 16 < y + ObjHeight(p)
    IN [p EXCEPT !.visible_objs = IF keep THEN Append(@, [x |-> x, y |-> y]) ELSE @,
                 !.oam_index = @ + 4]

\* Ppu::tick_pixel_transfer after the fetcher tick: a pixel leaves the
\* background FIFO unless a sprite fetch is pending or the FIFO is empty
PopPixel(p, pending) ==
    IF pending \/ p.bg_fifo = 0 THEN p
    ELSE IF p.to_discard_x > 0
    THEN [p EXCEPT !.bg_fifo = @ - 1, !.to_discard_x = @ - 1]
    ELSE [p EXCEPT !.bg_fifo = @ - 1,
                   !.obj_fifo = IF @ > 0 THEN @ - 1 ELSE 0,
                   !.x_pos = @ + 1]

\* the result ft of Fetcher::tick stored back into the PPU
AfterFetch(p, ft) ==
    PopPixel([p EXCEPT !.fetcher = ft.fetcher, !.bg_fifo = ft.bg_size,
                       !.obj_fifo = ft.obj_size],
             ft.pending)

\* the call of Fetcher::tick in Ppu::tick_pixel_transfer
FetchStep(p) ==
    AfterFetch(p, FetcherTick(p.fetcher, p.bg_fifo, p.obj_fifo, p.visible_objs,
                              p.x_pos))

\* Ppu::tick_pixel_transfer
TickPixelTransfer(p) ==
    FetchStep(IF /\ ~p.window_triggered
                 /\ WindowEnable(p)
                 /\ p.x_pos = p.window_x + 1
                 /\ p.line_y >= p.window_y
              THEN [p EXCEPT !.window_triggered = TRUE, !.bg_fifo = 0,
                             !.fetcher = FetcherStartWindow(@)]
              ELSE p)

\* the end of the pixel transfer of a line (ppu/mod.rs 183-200)
EndPixelTransfer(p) ==
    [p EXCEPT !.bg_fifo = 0, !.fetcher = FetcherStartLine(@),
              !.visible_objs = <<>>, !.x_pos = 0,
              !.line_y_window = IF p.window_triggered THEN @ + 1 ELSE @,
              !.window_triggered = FALSE, !.mode = HBlankMode]

\* the loop of up to four dots of a tick in pixel transfer: the PPU after
\* n more dots, stopping at the dot that ends the line
RECURSIVE PixelTransferDots(_, _)
RECURSIVE AfterDot(_, _)
PixelTransferDots(p, n) ==
    IF n = 0 THEN p ELSE AfterDot(TickPixelTransfer(p), n)

\* the test that follows each dot of the loop
AfterDot(p, n) ==
    IF p.x_pos = LCD_SIZE_X + 8 THEN EndPixelTransfer(p)
    ELSE PixelTransferDots(p, n - 1)

\* the end of the two OAM search steps of a tick (ppu/mod.rs 168-177)
EndOamSearch(p) ==
    IF p.oam_index = OAM_SIZE
    THEN [ppu |-> [p EXCEPT !.oam_index = 0, !.to_discard_x = p.scroll_x % 8,
                            !.mode = PixelTransferMode],
          interrupts |-> IF OamInterruptEnabled(p) THEN {LcdStat} ELSE {}]
    ELSE [ppu |-> p, interrupts |-> {}]

\* the interrupt of the dot that ended the pixel transfer (ppu/mod.rs 195-197)
HBlankInterrupt(p) ==
    [ppu |-> p,
     interrupts |-> IF p.mode = HBlankMode /\ HblankInterruptEnabled(p)
                    THEN {LcdStat} ELSE {}]

\* the mode-dependent part of Ppu::tick (ppu/mod.rs 163-204)
PpuModeStep(p) ==
    CASE p.mode = OamSearchMode -> EndOamSearch(TickOamSearch(TickOamSearch(p)))
      [] p.mode = PixelTransferMode -> HBlankInterrupt(PixelTransferDots(p, 4))
      [] OTHER -> [ppu |-> p, interrupts |-> {}]

\* a faulty line counter that enters VBlank anew on each of the lines 144-153
PpuLineStepEveryVBlankLine(p) ==
    LET count == (p.line_cycles_count + 1) % CYCLES_PER_LINE
        p1 == [p EXCEPT !.line_cycles_count = count]
    IN IF count # 0 THEN [ppu |-> p1, interrupts |-> {}]
       ELSE LET line_y == (p.line_y + 1) % LINES_PER_FRAME
                p2 == [p1 EXCEPT !.line_y = line_y,
                                 !.lyc_coincidence = (line_y = p.line_y_compare)]
            IN IF line_y <= LAST_VISIBLE_LINE
               THEN [ppu |-> [p2 EXCEPT !.mode = OamSearchMode], interrupts |-> {}]
               ELSE [ppu |-> [p2 EXCEPT !.line_y_window = 0, !.mode = VBlankMode],
                     interrupts |-> {VBlank}]

\* the line counter part of Ppu::tick (ppu/mod.rs 206-227)
PpuLineStep(p) ==
    LET count == (p.line_cycles_count + 1) % CYCLES_PER_LINE
        p1 == [p EXCEPT !.line_cycles_count = count]
    IN IF count # 0 THEN [ppu |-> p1, interrupts |-> {}]
       ELSE LET line_y == (p.line_y + 1) % LINES_PER_FRAME
                lyc == line_y = p.line_y_compare
                p2 == [p1 EXCEPT !.line_y = line_y, !.lyc_coincidence = lyc]
                i1 == IF lyc /\ CoincidenceInterruptEnabled(p) THEN {LcdStat} ELSE {}
            IN IF line_y <= LAST_VISIBLE_LINE
               THEN [ppu |-> [p2 EXCEPT !.mode = OamSearchMode], interrupts |-> i1]
               ELSE IF line_y = LCD_SIZE_Y
               THEN [ppu |-> [p2 EXCEPT !.line_y_window = 0, !.mode = VBlankMode],
                     interrupts |-> i1 \cup {VBlank}
                         \cup (IF VblankInterruptEnabled(p) THEN {LcdStat} ELSE {})]
               ELSE [ppu |-> p2, interrupts |-> i1]

\* what Ppu::tick returns after its mode step a and its line step b
PpuTickResult(a, b, request) ==
    [ppu |-> [b.ppu EXCEPT !.dma = -1],
     interrupts |-> a.interrupts \cup b.interrupts,
     dma_request |-> request]

\* Ppu::tick from the line counter on
AfterModeStep(a, request) == PpuTickResult(a, PpuLineStep(a.ppu), request)

\* Ppu::tick: the PPU after the tick, the interrupts it raises and the DMA
\* request it hands over (-1 for DmaRequest::None)
PpuTick(p) ==
    IF ~LcdEnable(p)
    THEN [ppu |-> [p EXCEPT !.line_y = 0, !.mode = VBlankMode],
          interrupts |-> {}, dma_request |-> -1]
    ELSE AfterModeStep(PpuModeStep(p), p.dma)

\* Ppu::read_registers for FF40-FF4B
PpuReadRegisters(p, address) ==
    CASE address = 65344 -> p.lcdc
      [] address = 65345 -> 128 + p.stat_enable + p.mode
      [] address = 65346 -> p.scroll_y
      [] address = 65347 -> p.scroll_x
      [] address = 65348 -> p.line_y
      [] address = 65349 -> p.line_y_compare
      [] address = 65350 -> p.dma_address
      [] address = 65354 -> p.window_y
      [] address = 65355 -> p.window_x
      [] OTHER -> 255

\* Ppu::write_registers for FF40-FF4B (the palettes are not modelled)
PpuWriteRegisters(p, address, value) ==
    CASE address = 65344 ->
           IF ~LcdEnable(p) /\ Bit(value, 7) = 1
           THEN [p EXCEPT !.lcdc = value, !.mode = OamSearchMode]
           ELSE [p EXCEPT !.lcdc = value]
      [] address = 65345 -> [p EXCEPT !.stat_enable = AndMask(value, {3, 4, 5, 6})]
      [] address = 65346 -> [p EXCEPT !.scroll_y = value]
      [] address = 65347 -> [p EXCEPT !.scroll_x = value]
      [] address = 65349 -> [p EXCEPT !.line_y_compare = value]
      [] address = 65350 -> [p EXCEPT !.dma = value, !.dma_address = value]
      [] address = 65354 -> [p EXCEPT !.window_y = value]
      [] address = 65355 -> [p EXCEPT !.window_x = value]
      [] OTHER -> p

\* Ppu::read_vram and Ppu::write_vram; vram holds the cells written so far,
\* every other cell the 0 of Ppu::new
PpuReadVram(p, address) ==
    IF p.mode = PixelTransferMode THEN 255
    ELSE IF address \in DOMAIN p.vram THEN p.vram[address]
    ELSE 0

PpuWriteVram(p, address, value) ==
    IF p.mode = PixelTransferMode THEN p
    ELSE [p EXCEPT !.vram = (address :> value) @@ @]

\* a faulty read_oam that is locked in pixel transfer only
PpuReadOamUnlockedInSearch(p, address) ==
    IF p.mode = PixelTransferMode THEN 255 ELSE p.oam[address]

\* Ppu::read_oam and Ppu::write_oam
PpuReadOam(p, address) ==
    IF p.mode \in {HBlankMode, VBlankMode} THEN p.oam[address] ELSE 255

PpuWriteOam(p, address, value) ==
    IF p.mode \in {HBlankMode, VBlankMode}
    THEN [p EXCEPT !.oam[address] = value]
    ELSE p

----------------------------------------------------------------------------
(* Cartridge (cartridge/mod.rs and the mappers).  A cartridge is one       *)
(* record: the fields of Header that decide behaviour, the fields of the   *)
(* mapper, the boot ROM switch and the RAM.  The RAM is kept as the cells  *)
(* written so far (every other cell holds the 0 of vec![0; ram_size]).     *)
(* The ROM image is a test pattern: with image "banks" every byte holds    *)
(* the number of the 16 KiB bank it lies in and every boot ROM byte holds  *)
(* BootromByte; with image "any" a byte of the image is whatever the       *)
(* environment supplies to the read.  A read that indexes past the end of  *)
(* a Vec aborts the process: it returns -1; a write that does sets fault.    *)

ROM_BANK_SIZE == 16384
RAM_BANK_SIZE == 8192
BOOTROM_END == 256
Mbc2RamSize == 512
MAX_RAM_BANK_SELECT == 3
CYCLES_PER_SECOND == 4194304

\* the byte every cell of the boot image holds under the image "banks"
BootromByte == 49

\* v & w for bytes
AndByte(v, w) == BitsOf({i \in 0..7 : Bit(v, i) = 1 /\ Bit(w, i) = 1})

\* Header::parse: the bank count for the byte at 0x148 (2 << n)
HeaderRomBankCount(rom_code) == 2 * Pow2(rom_code)

\* Header::parse: the RAM size for the byte at 0x149
HeaderRamSize(ram_code) ==
    CASE ram_code = 0 -> 0
      [] ram_code = 2 -> RAM_BANK_SIZE
      [] ram_code = 3 -> RAM_BANK_SIZE * 4
      [] ram_code = 4 -> RAM_BANK_SIZE * 16
      [] ram_code = 5 -> RAM_BANK_SIZE * 8

\* the mapper ids Header::parse accepts (the byte at 0x147)
MapperIds == {0, 1, 2, 3, 5, 6, 15, 16, 17, 18, 19, 25, 26, 27, 28, 29, 30}

\* Header::parse: the mapper for the byte at 0x147
MapperKind(id) ==
    CASE id = 0 -> "RomOnly"
      [] id \in {1, 2, 3} -> "Mbc1"
      [] id \in {5, 6} -> "Mbc2"
      [] id \in {15, 16, 17, 18, 19} -> "Mbc3"
      [] id \in {25, 26, 27, 28, 29, 30} -> "Mbc5"

\* the has_ram, has_battery, has_rtc and has_rumble arguments of the
\* mapper constructors in Header::parse
MapperHasRam(id) == id \in {2, 3, 16, 18, 19, 26, 27, 29, 30}
MapperHasBattery(id) == id \in {3, 6, 15, 16, 19, 27, 30}
MapperHasRtc(id) == id \in {15, 16}
MapperHasRumble(id) == id \in {28, 29, 30}

\* RtcRegisters::default
RtcRegistersDefault ==
    [seconds |-> 0, minutes |-> 0, hours |-> 0, days |-> 0, carry |-> FALSE,
     halt |-> FALSE]

\* what Cartridge::new returns for a well-formed image without save data:
\* the header h holds the bytes at 0x147, 0x148 and 0x149
CartridgeNew(h, bootrom, image) ==
    [kind |-> MapperKind(h.mapper_id),
     rom_bank_count |-> HeaderRomBankCount(h.rom_code),
     ram_len |-> IF MapperKind(h.mapper_id) = "Mbc2" THEN Mbc2RamSize
                 ELSE HeaderRamSize(h.ram_code),
     has_ram |-> MapperHasRam(h.mapper_id),
     has_battery |-> MapperHasBattery(h.mapper_id),
     has_rtc |-> MapperHasRtc(h.mapper_id),
     ram_bank_mask |-> IF MapperHasRumble(h.mapper_id) THEN 7 ELSE 15,
     ram_enabled |-> FALSE,
     rom_bank |-> 1,
     mode_register |-> 0,
     bank_mode |-> "RomHighBits",
     ram_bank |-> 0,
     current_time |-> RtcRegistersDefault,
     latched_time |-> RtcRegistersDefault,
     latch_toggle |-> FALSE,
     rtc_cycles |-> 0,
     bootrom |-> bootrom,
     bootrom_enabled |-> bootrom,
     image |-> image,
     bootrom_written |-> <<>>,
     ram |-> <<>>,
     fault |-> FALSE]

\* rom[index]
RomAt(c, index, inp) ==
    IF index >= c.rom_bank_count * ROM_BANK_SIZE THEN -1
    ELSE IF c.image = "any" THEN inp
    ELSE (index \div ROM_BANK_SIZE) % 256

\* bootrom[index], a Vec of 0x100 bytes
BootromAt(c, index, inp) ==
    IF index >= 256 THEN -1
    ELSE IF index \in DOMAIN c.bootrom_written THEN c.bootrom_written[index]
    ELSE IF c.image = "any" THEN inp
    ELSE BootromByte

\* ram[index]
RamAt(c, index) ==
    IF index >= c.ram_len THEN -1
    ELSE IF index \in DOMAIN c.ram THEN c.ram[index]
    ELSE 0

\* ram[index] = value
RamPut(c, index, value) ==
    IF index >= c.ram_len THEN [c EXCEPT !.fault = TRUE]
    ELSE [c EXCEPT !.ram = (index :> value) @@ @]

\* Mbc1::rom_address_low
Mbc1RomAddressLow(c, address) ==
    IF c.bank_mode = "RomHighBits"
    THEN address + ((c.mode_register * 32) % 256) * ROM_BANK_SIZE
    ELSE address

\* Mbc1::rom_address_high
Mbc1RomAddressHigh(c, address) ==
    IF c.bank_mode = "RomHighBits"
    THEN address - ROM_BANK_SIZE
           + OrByte((c.mode_register * 32) % 256, c.rom_bank) * ROM_BANK_SIZE
    ELSE address - ROM_BANK_SIZE + c.rom_bank * ROM_BANK_SIZE

\* Mbc1::ram_address
Mbc1RamAddress(c, address) ==
    IF c.bank_mode = "RomHighBits" THEN address
    ELSE address + c.rom_bank * RAM_BANK_SIZE

\* the five bits Mbc1::write_rom stores for a write to 2000-3FFF
\* (mbc1.rs 98-100)
Mbc1LowerBits(c, value) ==
    IF AndByte(value % 32, (c.rom_bank_count - 1) % 256) # 0
    THEN AndByte(value % 32, (c.rom_bank_count - 1) % 256)
    ELSE 1

\* Mbc1::write_rom
Mbc1WriteRom(c, address, value) ==
    CASE address <= 8191 -> [c EXCEPT !.ram_enabled = (value % 16 = 10)]
      [] address >= 8192 /\ address <= 16383 ->
           [c EXCEPT !.rom_bank = (@ \div 32) * 32 + Mbc1LowerBits(c, value)]
      [] address >= 16384 /\ address <= 24575 ->
           [c EXCEPT !.mode_register = value % 4]
      [] address >= 24576 /\ address <= 32767 ->
           [c EXCEPT !.bank_mode = IF value % 2 = 0 THEN "RomHighBits" ELSE "Ram"]

\* Mbc1::read_rom
Mbc1ReadRom(c, address, inp) ==
    IF address <= 16383 THEN RomAt(c, Mbc1RomAddressLow(c, address), inp)
    ELSE RomAt(c, Mbc1RomAddressHigh(c, address), inp)

\* Mbc1::read_ram
Mbc1ReadRam(c, address) ==
    IF ~c.has_ram \/ ~c.ram_enabled \/ address >= c.ram_len THEN 255
    ELSE RamAt(c, Mbc1RamAddress(c, address))

\* Mbc1::write_ram
Mbc1WriteRam(c, address, value) ==
    IF c.has_ram /\ c.ram_enabled /\ address <= c.ram_len
    THEN RamPut(c, Mbc1RamAddress(c, address), value)
    ELSE c

\* Mbc2::write_rom
Mbc2WriteRom(c, address, value) ==
    IF address <= 16383
    THEN IF Bit(address, 8) = 0
         THEN [c EXCEPT !.ram_enabled = (value % 16 = 10)]
         ELSE [c EXCEPT !.rom_bank = IF value % 16 > 1 THEN value % 16 ELSE 1]
    ELSE c

\* Mbc2::read_rom, Mbc3::read_rom and Mbc5::read_rom: the low bank is
\* fixed, the high bank is rom_bank (rom_bank - 1 wraps or aborts at 0, and
\* the index is past the image either way)
FixedLowReadRom(c, address, inp) ==
    IF address <= 16383 THEN RomAt(c, address, inp)
    ELSE IF c.rom_bank = 0 THEN -1
    ELSE RomAt(c, address + (c.rom_bank - 1) * ROM_BANK_SIZE, inp)

\* Mbc2::read_ram
Mbc2ReadRam(c, address) ==
    IF ~c.ram_enabled THEN 255
    ELSE OrByte(RamAt(c, address % 512), 240)

\* Mbc2::write_ram
Mbc2WriteRam(c, address, value) ==
    IF c.ram_enabled THEN RamPut(c, address % 512, OrByte(value, 240)) ELSE c

\* RtcRegisters::days_high_byte
DaysHighByte(t) ==
    ((t.days \div 256) % 2) + (IF t.halt THEN 64 ELSE 0) + (IF t.carry THEN 128 ELSE 0)

\* RtcRegisters::set_days_high_byte
SetDaysHighByte(t, value) ==
    [t EXCEPT !.days = (@ % 256) + (value % 2) * 256,
              !.carry = (value \div 128 # 0),
              !.halt = (Bit(value, 6) = 1)]

\* Mbc3::write_rom
Mbc3WriteRom(c, address, value) ==
    CASE address <= 8191 -> [c EXCEPT !.ram_enabled = (value % 16 = 10)]
      [] address >= 8192 /\ address <= 16383 ->
           [c EXCEPT !.rom_bank = IF value % 128 > 1 THEN value % 128 ELSE 1]
      [] address >= 16384 /\ address <= 24575 -> [c EXCEPT !.ram_bank = value % 16]
      [] address >= 24576 /\ address <= 32767 ->
           [c EXCEPT !.latched_time = IF ~c.latch_toggle /\ value % 2 = 1
                                      THEN c.current_time ELSE @,
                     !.latch_toggle = (value % 2 = 1)]

\* Mbc3::read_ram
Mbc3ReadRam(c, address) ==
    IF ~c.ram_enabled THEN 255
    ELSE CASE c.ram_bank <= MAX_RAM_BANK_SELECT /\ c.has_ram ->
                RamAt(c, address + c.ram_bank * RAM_BANK_SIZE)
           [] c.ram_bank = 8 /\ c.has_rtc -> c.latched_time.seconds
           [] c.ram_bank = 9 /\ c.has_rtc -> c.latched_time.minutes
           [] c.ram_bank = 10 /\ c.has_rtc -> c.latched_time.hours
           [] c.ram_bank = 11 /\ c.has_rtc -> c.latched_time.days % 256
           [] c.ram_bank = 12 /\ c.has_rtc -> DaysHighByte(c.latched_time)
           [] OTHER -> 255

\* Mbc3::write_ram
Mbc3WriteRam(c, address, value) ==
    IF ~c.ram_enabled THEN c
    ELSE CASE c.ram_bank <= MAX_RAM_BANK_SELECT ->
                RamPut(c, address + c.ram_bank * RAM_BANK_SIZE, value)
           [] c.ram_bank = 8 -> [c EXCEPT !.current_time.seconds = value % 64]
           [] c.ram_bank = 9 -> [c EXCEPT !.current_time.minutes = value % 64]
           [] c.ram_bank = 10 -> [c EXCEPT !.current_time.hours = value % 32]
           [] c.ram_bank = 11 ->
                [c EXCEPT !.current_time.days = (@ \div 256) * 256 + value]
           [] c.ram_bank = 12 ->
                [c EXCEPT !.current_time = SetDaysHighByte(@, value)]
           [] OTHER -> c

\* the carry of one second into minutes, hours and days in Mbc3::tick
\* (mbc3.rs 269-291)
RtcAddSecond(t) ==
    IF t.seconds + 1 = 60
    THEN IF t.minutes + 1 = 60
         THEN IF t.hours + 1 = 24
              THEN IF t.days + 1 > 511
                   THEN [t EXCEPT !.seconds = 0, !.minutes = 0, !.hours = 0,
                                  !.days = 0, !.carry = TRUE]
                   ELSE [t EXCEPT !.seconds = 0, !.minutes = 0, !.hours = 0,
                                  !.days = @ + 1]
              ELSE [t EXCEPT !.seconds = 0, !.minutes = 0,
                             !.hours = IF @ + 1 = 32 THEN 0 ELSE @ + 1]
         ELSE [t EXCEPT !.seconds = 0,
                        !.minutes = IF @ + 1 = 64 THEN 0 ELSE @ + 1]
    ELSE [t EXCEPT !.seconds = IF @ + 1 = 64 THEN 0 ELSE @ + 1]

\* a faulty tick that lets the clock run while it is halted
Mbc3TickIgnoresHalt(c) ==
    IF ~c.has_rtc THEN [c EXCEPT !.rtc_cycles = 0]
    ELSE IF c.rtc_cycles + 4 = CYCLES_PER_SECOND
    THEN [c EXCEPT !.rtc_cycles = 0, !.current_time = RtcAddSecond(@)]
    ELSE [c EXCEPT !.rtc_cycles = @ + 4]

\* Mbc3::tick
Mbc3Tick(c) ==
    IF ~c.has_rtc \/ c.current_time.halt THEN [c EXCEPT !.rtc_cycles = 0]
    ELSE IF c.rtc_cycles + 4 = CYCLES_PER_SECOND
    THEN [c EXCEPT !.rtc_cycles = 0, !.current_time = RtcAddSecond(@)]
    ELSE [c EXCEPT !.rtc_cycles = @ + 4]

\* Mbc5::write_rom; a write to 6000-7FFF reaches the panic! arm
Mbc5WriteRom(c, address, value) ==
    CASE address <= 8191 -> [c EXCEPT !.ram_enabled = (value % 16 = 10)]
      [] address >= 8192 /\ address <= 12287 ->
           [c EXCEPT !.rom_bank = (@ \div 256) * 256 + value]
      [] address >= 12288 /\ address <= 16383 ->
           [c EXCEPT !.rom_bank = (@ % 256) + (value % 2) * 256]
      [] address >= 16384 /\ address <= 24575 ->
           [c EXCEPT !.ram_bank = AndByte(value, c.ram_bank_mask)]
      [] OTHER -> [c EXCEPT !.fault = TRUE]

\* Mbc5::read_ram
Mbc5ReadRam(c, address) ==
    IF c.has_ram THEN RamAt(c, address + c.ram_bank * RAM_BANK_SIZE) ELSE 255

\* Mbc5::write_ram
Mbc5WriteRam(c, address, value) == c

\* Cartridge::tick
CartridgeTick(c) == IF c.kind = "Mbc3" THEN Mbc3Tick(c) ELSE c

\* a faulty write of FF50 after which the boot ROM can be mapped again
DisableBootromToggle(c) == [c EXCEPT !.bootrom_enabled = ~@]

\* Cartridge::disable_bootrom
DisableBootrom(c) == [c EXCEPT !.bootrom_enabled = FALSE]

\* MapperOps::read_rom through the Mapper enum
MapperReadRom(c, address, inp) ==
    CASE c.kind = "RomOnly" -> RomAt(c, address, inp)
      [] c.kind = "Mbc1" -> Mbc1ReadRom(c, address, inp)
      [] OTHER -> FixedLowReadRom(c, address, inp)

\* MapperOps::write_rom through the Mapper enum
MapperWriteRom(c, address, value) ==
    CASE c.kind = "RomOnly" -> c
      [] c.kind = "Mbc1" -> Mbc1WriteRom(c, address, value)
      [] c.kind = "Mbc2" -> Mbc2WriteRom(c, address, value)
      [] c.kind = "Mbc3" -> Mbc3WriteRom(c, address, value)
      [] c.kind = "Mbc5" -> Mbc5WriteRom(c, address, value)

\* Cartridge::read_rom
CartridgeReadRom(c, address, inp) ==
    IF c.bootrom /\ c.bootrom_enabled /\ address <= BOOTROM_END
    THEN BootromAt(c, address, inp)
    ELSE MapperReadRom(c, address, inp)

\* Cartridge::write_rom; a write below 0x101 while the boot ROM is mapped
\* goes to the boot image
CartridgeWriteRom(c, address, value) ==
    IF c.bootrom /\ c.bootrom_enabled /\ address <= BOOTROM_END
    THEN IF address >= 256 THEN [c EXCEPT !.fault = TRUE]
         ELSE [c EXCEPT !.bootrom_written = (address :> value) @@ @]
    ELSE MapperWriteRom(c, address, value)

\* Cartridge::read_ram
CartridgeReadRam(c, address) ==
    CASE c.kind = "RomOnly" -> 255
      [] c.kind = "Mbc1" -> Mbc1ReadRam(c, address)
      [] c.kind = "Mbc2" -> Mbc2ReadRam(c, address)
      [] c.kind = "Mbc3" -> Mbc3ReadRam(c, address)
      [] c.kind = "Mbc5" -> Mbc5ReadRam(c, address)

\* Cartridge::write_ram
CartridgeWriteRam(c, address, value) ==
    CASE c.kind = "RomOnly" -> c
      [] c.kind = "Mbc1" -> Mbc1WriteRam(c, address, value)
      [] c.kind = "Mbc2" -> Mbc2WriteRam(c, address, value)
      [] c.kind = "Mbc3" -> Mbc3WriteRam(c, address, value)
      [] c.kind = "Mbc5" -> Mbc5WriteRam(c, address, value)

----------------------------------------------------------------------------
(* APU (apu.rs): the registers behind FF10-FF3F, the length counters, the  *)
(* triggers and the frequency sweep.  What only shapes the samples (the    *)
(* per-channel cycle counters, wave indices, volumes, the LFSR, the        *)
(* amplitudes and the delta buffers) is left out: no register read         *)
(* depends on it.  sound_enable.channels is the set of the channels whose  *)
(* bit is set; a ChannelToggles of the panning register is its nibble.     *)

WAVELEN_MAX == 2048

\* Sweep::default, VolumeEnvelope::default, FreqRand::default
SweepDefault == [pace |-> 0, op |-> 0, slope_ctrl |-> 0]
VolumeEnvelopeDefault == [initial |-> 0, direction |-> 0, pace |-> 0]
FreqRandDefault == [clock_shift |-> 0, lfsr_width |-> 0, clock_div |-> 0]
MasterVolVinPanDefault ==
    [left_volume |-> 0, right_volume |-> 0, mix_vin_left |-> FALSE,
     mix_vin_right |-> FALSE]
SoundPanningDefault == [left |-> 0, right |-> 0]

\* Apu::new
ApuNew ==
    [enable_apu |-> FALSE, channels |-> {}, div |-> 0,
     master_vol_vin_pan |-> MasterVolVinPanDefault,
     sound_panning |-> SoundPanningDefault,
     ch1_sweep |-> SweepDefault, ch1_wave_duty |-> 0, ch1_len_timer |-> 0,
     ch1_vol_env |-> VolumeEnvelopeDefault, ch1_trigger |-> FALSE,
     ch1_len_enable |-> FALSE, ch1_wavelen |-> 0,
     ch2_wave_duty |-> 0, ch2_len_timer |-> 0,
     ch2_vol_env |-> VolumeEnvelopeDefault, ch2_trigger |-> FALSE,
     ch2_len_enable |-> FALSE, ch2_wavelen |-> 0,
     ch3_dac_enable |-> FALSE, ch3_len_timer |-> 0, ch3_out_level |-> 0,
     ch3_trigger |-> FALSE, ch3_len_enable |-> FALSE, ch3_wavelen |-> 0,
     wave_pattern |-> [i \in 0..15 |-> 0],
     ch4_len_timer |-> 0, ch4_vol_env |-> VolumeEnvelopeDefault,
     ch4_freq_rand |-> FreqRandDefault, ch4_trigger |-> FALSE,
     ch4_len_enable |-> FALSE,
     ch1_volume |-> 0, ch2_volume |-> 0, ch4_volume |-> 0]

\* Sweep::value and Sweep::set_value
SweepValue(s) == 128 + (s.pace % 8) * 16 + s.op * 8 + (s.slope_ctrl % 8)
SweepOf(value) ==
    [pace |-> (value \div 16) % 8, op |-> Bit(value, 3), slope_ctrl |-> value % 8]

\* WaveDutyTimerLen::value, and the two fields WaveDutyTimerLen::set_value
\* stores
WaveDutyValue(wave_duty) == wave_duty * 64 + 63
WaveDutyOf(value) == value \div 64
LenTimerOf(value) == (63 - (value % 64)) + 1

\* VolumeEnvelope::value, set_value and dac_enabled
VolumeEnvelopeValue(e) == (e.initial * 16 + e.direction * 8 + (e.pace % 8)) % 256
VolumeEnvelopeOf(value) ==
    [initial |-> value \div 16, direction |-> Bit(value, 3), pace |-> value % 8]
DacEnabled(e) == e.initial # 0 \/ e.direction # 0

\* WavelenCtrl::value_ctrl
ValueCtrl(len_enable) == IF len_enable THEN 255 ELSE 191

\* WavelenCtrl::set_value_wavelen_h_ctrl and set_value_wavelen_l
WavelenHigh(wavelen, value) == (wavelen % 256) + (value % 8) * 256
WavelenLow(wavelen, value) == (wavelen \div 256) * 256 + value

\* FreqRand::value and FreqRand::set_value
FreqRandValue(f) ==
    (f.clock_shift % 16) * 16 + f.lfsr_width * 8 + (f.clock_div % 8)
FreqRandOf(value) ==
    [clock_shift |-> value \div 16, lfsr_width |-> Bit(value, 3),
     clock_div |-> value % 8]

\* MasterVolVinPan::value and MasterVolVinPan::set_value
MasterVolVinPanValue(v) ==
    (IF v.mix_vin_left THEN 128 ELSE 0) + (v.left_volume % 8) * 16
        + (IF v.mix_vin_right THEN 8 ELSE 0) + (v.right_volume % 8)
MasterVolVinPanOf(value) ==
    [left_volume |-> (value \div 16) % 8, right_volume |-> value % 8,
     mix_vin_left |-> (Bit(value, 7) = 1), mix_vin_right |-> (Bit(value, 3) = 1)]

\* SoundPanning::value and SoundPanning::set_value
SoundPanningValue(p) == ((p.left * 16) % 256) + (p.right % 16)
SoundPanningOf(value) == [left |-> value \div 16, right |-> value % 16]

\* ChannelToggles::value of sound_enable.channels
ChannelsValue(S) == BitsOf({ch - 1 : ch \in S})

\* SoundEnable::value
SoundEnableValue(a) ==
    (IF a.enable_apu THEN 128 ELSE 0) + 112 + ChannelsValue(a.channels)

\* Apu::read
ApuRead(a, address) ==
    CASE address = 65296 -> SweepValue(a.ch1_sweep)
      [] address = 65297 -> WaveDutyValue(a.ch1_wave_duty)
      [] address = 65298 -> VolumeEnvelopeValue(a.ch1_vol_env)
      [] address = 65299 -> 255
      [] address = 65300 -> ValueCtrl(a.ch1_len_enable)
      [] address = 65301 -> 255
      [] address = 65302 -> WaveDutyValue(a.ch2_wave_duty)
      [] address = 65303 -> VolumeEnvelopeValue(a.ch2_vol_env)
      [] address = 65304 -> 255
      [] address = 65305 -> ValueCtrl(a.ch2_len_enable)
      [] address = 65306 -> (IF a.ch3_dac_enable THEN 128 ELSE 0) + 127
      [] address = 65307 -> 255
      [] address = 65308 -> 159 + (a.ch3_out_level % 4) * 32
      [] address = 65309 -> 255
      [] address = 65310 -> ValueCtrl(a.ch3_len_enable)
      [] address = 65311 -> 255
      [] address = 65312 -> 255
      [] address = 65313 -> VolumeEnvelopeValue(a.ch4_vol_env)
      [] address = 65314 -> FreqRandValue(a.ch4_freq_rand)
      [] address = 65315 -> ValueCtrl(a.ch4_len_enable)
      [] address = 65316 -> MasterVolVinPanValue(a.master_vol_vin_pan)
      [] address = 65317 -> SoundPanningValue(a.sound_panning)
      [] address = 65318 -> SoundEnableValue(a)
      [] address >= 65319 /\ address <= 65327 -> 255
      [] address >= 65328 /\ address <= 65343 -> a.wave_pattern[address % 16]

\* a faulty power-off that resets the channels only
ApuPowerOffChannelsOnly(a) ==
    [ApuNew EXCEPT !.ch1_len_timer = a.ch1_len_timer,
                   !.ch2_len_timer = a.ch2_len_timer,
                   !.ch3_len_timer = a.ch3_len_timer,
                   !.ch4_len_timer = a.ch4_len_timer,
                   !.wave_pattern = a.wave_pattern,
                   !.master_vol_vin_pan = a.master_vol_vin_pan,
                   !.sound_panning = a.sound_panning]

\* the resets of Apu::write for a cleared power bit (apu.rs 809-817):
\* Channel1::reset to Channel4::reset keep the length timers and the wave
\* pattern
ApuPowerOff(a) ==
    [ApuNew EXCEPT !.ch1_len_timer = a.ch1_len_timer,
                   !.ch2_len_timer = a.ch2_len_timer,
                   !.ch3_len_timer = a.ch3_len_timer,
                   !.ch4_len_timer = a.ch4_len_timer,
                   !.wave_pattern = a.wave_pattern]

\* a faulty volume envelope write that leaves the channel on
WriteVolEnvKeepsChannel(a, ch, value) == a

\* the volume envelope writes, which switch a channel without DAC off
WriteVolEnv(a, ch, value) ==
    IF DacEnabled(VolumeEnvelopeOf(value)) THEN a
    ELSE [a EXCEPT !.channels = @ \ {ch}]

\* the match of Apu::write (apu.rs 748-821)
ApuStore(a, address, value) ==
    CASE address = 65296 -> [a EXCEPT !.ch1_sweep = SweepOf(value)]
      [] address = 65297 -> [a EXCEPT !.ch1_wave_duty = WaveDutyOf(value),
                                      !.ch1_len_timer = LenTimerOf(value)]
      [] address = 65298 ->
           [WriteVolEnv(a, 1, value) EXCEPT !.ch1_vol_env = VolumeEnvelopeOf(value)]
      [] address = 65299 -> [a EXCEPT !.ch1_wavelen = WavelenLow(@, value)]
      [] address = 65300 -> [a EXCEPT !.ch1_trigger = (Bit(value, 7) = 1),
                                      !.ch1_len_enable = (Bit(value, 6) = 1),
                                      !.ch1_wavelen = WavelenHigh(@, value)]
      [] address = 65302 -> [a EXCEPT !.ch2_wave_duty = WaveDutyOf(value),
                                      !.ch2_len_timer = LenTimerOf(value)]
      [] address = 65303 ->
           [WriteVolEnv(a, 2, value) EXCEPT !.ch2_vol_env = VolumeEnvelopeOf(value)]
      [] address = 65304 -> [a EXCEPT !.ch2_wavelen = WavelenLow(@, value)]
      [] address = 65305 -> [a EXCEPT !.ch2_trigger = (Bit(value, 7) = 1),
                                      !.ch2_len_enable = (Bit(value, 6) = 1),
                                      !.ch2_wavelen = WavelenHigh(@, value)]
      [] address = 65306 ->
           [a EXCEPT !.ch3_dac_enable = (Bit(value, 7) = 1),
                     !.channels = IF Bit(value, 7) = 1 THEN @ ELSE @ \ {3}]
      [] address = 65307 -> [a EXCEPT !.ch3_len_timer = (255 - value) + 1]
      [] address = 65308 -> [a EXCEPT !.ch3_out_level = (value \div 32) % 4]
      [] address = 65309 -> [a EXCEPT !.ch3_wavelen = WavelenLow(@, value)]
      [] address = 65310 -> [a EXCEPT !.ch3_trigger = (Bit(value, 7) = 1),
                                      !.ch3_len_enable = (Bit(value, 6) = 1),
                                      !.ch3_wavelen = WavelenHigh(@, value)]
      [] address >= 65328 /\ address <= 65343 ->
           [a EXCEPT !.wave_pattern[address % 16] = value]
      [] address = 65312 -> [a EXCEPT !.ch4_len_timer = LenTimerOf(value)]
      [] address = 65313 ->
           [WriteVolEnv(a, 4, value) EXCEPT !.ch4_vol_env = VolumeEnvelopeOf(value)]
      [] address = 65314 -> [a EXCEPT !.ch4_freq_rand = FreqRandOf(value)]
      [] address = 65315 -> [a EXCEPT !.ch4_trigger = (Bit(value, 7) = 1),
                                      !.ch4_len_enable = (Bit(value, 6) = 1)]
      [] address = 65316 ->
           [a EXCEPT !.master_vol_vin_pan = MasterVolVinPanOf(value)]
      [] address = 65317 -> [a EXCEPT !.sound_panning = SoundPanningOf(value)]
      [] address = 65318 ->
           IF value \div 128 # 0
           THEN [a EXCEPT !.enable_apu = TRUE]
           ELSE ApuPowerOff(a)
      [] OTHER -> a

\* a faulty write that lets everything through while the APU is off
ApuWriteAlways(a, address, value) == ApuStore(a, address, value)

\* Apu::write
ApuWrite(a, address, value) ==
    IF ~a.enable_apu /\ address # 65318 /\ ~(address >= 65328 /\ address <= 65343)
    THEN a
    ELSE ApuStore(a, address, value)

\* Apu::tick_len: the timer, and whether the channel is switched off
LenAfterTick(len_timer, len_enable) ==
    IF len_enable /\ len_timer > 0 THEN len_timer - 1 ELSE len_timer
LenExpires(len_timer, len_enable) == len_enable /\ len_timer = 1

\* the timer a trigger starts from, reloaded with full when it is 0
Reloaded(len_timer, full) == IF len_timer = 0 THEN full ELSE len_timer

\* the length timer and the channel bit a trigger leaves (apu.rs 500-571);
\* with div odd the trigger ticks the length once
TriggeredLen(a, len_timer, len_enable, full) ==
    IF a.div % 2 = 1
    THEN LenAfterTick(Reloaded(len_timer, full), len_enable)
    ELSE Reloaded(len_timer, full)
TriggeredChannels(a, ch, len_timer, len_enable, full) ==
    IF a.div % 2 = 1 /\ LenExpires(Reloaded(len_timer, full), len_enable)
    THEN a.channels \ {ch}
    ELSE a.channels \cup {ch}

\* the four triggers of Apu::tick
Trigger1(a) ==
    IF DacEnabled(a.ch1_vol_env) /\ a.ch1_trigger
    THEN [a EXCEPT !.ch1_trigger = FALSE,
                   !.ch1_volume = a.ch1_vol_env.initial,
                   !.ch1_len_timer = TriggeredLen(a, @, a.ch1_len_enable, 64),
                   !.channels = TriggeredChannels(a, 1, a.ch1_len_timer,
                                                  a.ch1_len_enable, 64)]
    ELSE a
Trigger2(a) ==
    IF DacEnabled(a.ch2_vol_env) /\ a.ch2_trigger
    THEN [a EXCEPT !.ch2_trigger = FALSE,
                   !.ch2_volume = a.ch2_vol_env.initial,
                   !.ch2_len_timer = TriggeredLen(a, @, a.ch2_len_enable, 64),
                   !.channels = TriggeredChannels(a, 2, a.ch2_len_timer,
                                                  a.ch2_len_enable, 64)]
    ELSE a
Trigger3(a) ==
    IF a.ch3_dac_enable /\ a.ch3_trigger
    THEN [a EXCEPT !.ch3_trigger = FALSE,
                   !.ch3_len_timer = TriggeredLen(a, @, a.ch3_len_enable, 256),
                   !.channels = TriggeredChannels(a, 3, a.ch3_len_timer,
                                                  a.ch3_len_enable, 256)]
    ELSE a
Trigger4(a) ==
    IF DacEnabled(a.ch4_vol_env) /\ a.ch4_trigger
    THEN [a EXCEPT !.ch4_trigger = FALSE,
                   !.ch4_volume = a.ch4_vol_env.initial,
                   !.ch4_len_timer = TriggeredLen(a, @, a.ch4_len_enable, 64),
                   !.channels = TriggeredChannels(a, 4, a.ch4_len_timer,
                                                  a.ch4_len_enable, 64)]
    ELSE a

\* Apu::tick (the samples are left out)
ApuTick(a) ==
    IF ~a.enable_apu THEN a ELSE Trigger4(Trigger3(Trigger2(Trigger1(a))))

\* the length timer and the length enable of a channel
ChLenTimer(a, ch) ==
    CASE ch = 1 -> a.ch1_len_timer
      [] ch = 2 -> a.ch2_len_timer
      [] ch = 3 -> a.ch3_len_timer
      [] ch = 4 -> a.ch4_len_timer
ChLenEnable(a, ch) ==
    CASE ch = 1 -> a.ch1_len_enable
      [] ch = 2 -> a.ch2_len_enable
      [] ch = 3 -> a.ch3_len_enable
      [] ch = 4 -> a.ch4_len_enable

\* the length step of Apu::inc_div (apu.rs 419-441)
LenStep(a) ==
    IF a.div % 2 = 0
    THEN [a EXCEPT
            !.ch1_len_timer = LenAfterTick(@, a.ch1_len_enable),
            !.ch2_len_timer = LenAfterTick(@, a.ch2_len_enable),
            !.ch3_len_timer = LenAfterTick(@, a.ch3_len_enable),
            !.ch4_len_timer = LenAfterTick(@, a.ch4_len_enable),
            !.channels = @ \ {ch \in 1..4 :
                                LenExpires(ChLenTimer(a, ch), ChLenEnable(a, ch))}]
    ELSE a

\* the pace and the offset of the frequency sweep
SweepPace(a) == IF a.ch1_sweep.pace # 0 THEN a.ch1_sweep.pace ELSE 8
SweepOffset(a) == a.ch1_wavelen \div Pow2(a.ch1_sweep.slope_ctrl)

\* the sweep step of Apu::inc_div (apu.rs 443-470)
SweepStep(a) ==
    IF a.div % 4 = 0 /\ a.ch1_wavelen > 0 /\ (a.div \div 4) % SweepPace(a) = 0
    THEN IF a.ch1_sweep.op = 0
         THEN IF a.ch1_wavelen + SweepOffset(a) >= WAVELEN_MAX
              THEN [a EXCEPT !.channels = @ \ {1}]
              ELSE [a EXCEPT !.ch1_wavelen = @ + SweepOffset(a)]
         ELSE IF SweepOffset(a) > a.ch1_wavelen
              THEN [a EXCEPT !.channels = @ \ {1}]
              ELSE [a EXCEPT !.ch1_wavelen = @ - SweepOffset(a)]
    ELSE a

\* the closure tick_enveloppe of Apu::inc_div (apu.rs 473-484), for the
\* counter div: u8::max(volume + 1, 15) when increasing
EnvelopeAfterTick(vol_env, volume, div) ==
    IF vol_env.pace # 0 /\ div % vol_env.pace = 0
    THEN IF vol_env.direction = 1
         THEN (IF (volume + 1) % 256 > 15 THEN (volume + 1) % 256 ELSE 15)
         ELSE (IF volume > 0 THEN volume - 1 ELSE volume)
    ELSE volume

\* the envelope step of Apu::inc_div (apu.rs 472-488)
EnvelopeStep(a) ==
    IF a.div % 8 = 0
    THEN [a EXCEPT
            !.ch1_volume = EnvelopeAfterTick(a.ch1_vol_env, @, a.div),
            !.ch2_volume = EnvelopeAfterTick(a.ch2_vol_env, @, a.div),
            !.ch4_volume = EnvelopeAfterTick(a.ch4_vol_env, @, a.div)]
    ELSE a

\* Apu::inc_div
ApuIncDiv(a) ==
    IF ~a.enable_apu THEN a
    ELSE [EnvelopeStep(SweepStep(LenStep(a))) EXCEPT !.div = (@ + 1) % 256]

----------------------------------------------------------------------------
(* The machine: Cpu, with the Mmu it owns, as one record.  Operators take *)
(* and return machines so that the bus accesses of one instruction can be *)
(* chained in the order the code issues them.                             *)

\* what a step did: an instruction with its opcode, an interrupt dispatch, an
\* idle tick (Halt, Stop, IllegalInstruction) or a button event
Op(kind, opcode) == [kind |-> kind, opcode |-> opcode]

Machine ==
    [registers |-> registers, enable_ime |-> enable_ime, cycles |-> cycles,
     execution_state |-> execution_state, interrupt_flags |-> interrupt_flags,
     interrupt_enable |-> interrupt_enable, ie_value |-> ie_value,
     buttons |-> buttons, timer |-> timer, ppu |-> ppu, wram |-> wram,
     dma |-> dma, cart |-> cart, apu |-> apu, panicked |-> panicked,
     nticks |-> 0, op |-> Op("none", 0), log |-> log, writes |-> <<>>]

\* Mmu::tick_stopped
MmuTickStopped(m) ==
    [m EXCEPT !.interrupt_flags = @ \cup IoTickStopped(m.buttons),
              !.nticks = @ + 1]

\* Mmu::interrupts
Interrupts(m) == m.interrupt_flags \cap m.interrupt_enable

\* the order in which Mmu::next_interrupt looks for a pending interrupt
InterruptOrder == <<VBlank, LcdStat, Timer, Serial, Joypad>>

\* a faulty next_interrupt that searches from the lowest priority
NextInterruptLowest(m) ==
    LET hits == {k \in 1..Len(InterruptOrder) : InterruptOrder[k] \in Interrupts(m)}
    IN IF hits = {} THEN -1
       ELSE InterruptOrder[CHOOSE k \in hits : \A j \in hits : k >= j]

\* Mmu::next_interrupt, -1 for None
NextInterrupt(m) ==
    LET hits == {k \in 1..Len(InterruptOrder) : InterruptOrder[k] \in Interrupts(m)}
    IN IF hits = {} THEN -1
       ELSE InterruptOrder[CHOOSE k \in hits : \A j \in hits : k <= j]

\* Mmu::reset_interrupt
ResetInterrupt(m, interrupt) == [m EXCEPT !.interrupt_flags = @ \ {interrupt}]

\* wram[index]: the cells written so far, 0 (Mmu::new) for the others
WramAt(w, index) == IF index \in DOMAIN w THEN w[index] ELSE 0

\* Mmu::read_byte_no_conflict, which is all Mmu::read_byte does.  inp is the
\* byte the region holds when its content is not modelled (high RAM, a ROM
\* image left open); -1 stands for the panic of an index out of bounds.
MmuReadByte(m, address, inp) ==
    CASE address <= 32767 -> CartridgeReadRom(m.cart, address, inp)
      [] address >= 32768 /\ address <= 40959 -> PpuReadVram(m.ppu, address - 32768)
      [] address >= 40960 /\ address <= 49151 -> CartridgeReadRam(m.cart, address - 40960)
      [] address >= 49152 /\ address <= 57343 -> WramAt(m.wram, address - 49152)
      [] address >= 57344 /\ address <= 65023 -> WramAt(m.wram, address - 57344)
      [] address >= 65024 /\ address <= 65183 -> PpuReadOam(m.ppu, address - 65024)
      [] address >= 65184 /\ address <= 65279 -> 255
      [] address = 65280 -> ButtonsRead(m.buttons)
      [] address >= 65281 /\ address <= 65283 -> 255
      [] address >= 65284 /\ address <= 65287 -> TimerRead(m.timer, address)
      [] address >= 65288 /\ address <= 65294 -> 255
      [] address = 65295 -> BitsOf(m.interrupt_flags) + 224
      [] address >= 65296 /\ address <= 65343 -> ApuRead(m.apu, address)
      [] address \in {65344, 65345, 65346, 65347, 65348, 65349, 65350, 65354, 65355} ->
           PpuReadRegisters(m.ppu, address)
      [] address >= 65356 /\ address <= 65407 -> 255
      [] address = 65535 -> BitsOf(m.interrupt_enable) + AndMask(m.ie_value, {5, 6, 7})
      [] OTHER -> inp

\* Mmu::write_byte_no_conflict, which is all Mmu::write_byte does.  A write
\* to high RAM changes nothing the model holds.
MmuWriteByte(m, address, value) ==
    CASE address <= 32767 -> [m EXCEPT !.cart = CartridgeWriteRom(@, address, value)]
      [] address >= 32768 /\ address <= 40959 ->
           [m EXCEPT !.ppu = PpuWriteVram(@, address - 32768, value)]
      [] address >= 40960 /\ address <= 49151 ->
           [m EXCEPT !.cart = CartridgeWriteRam(@, address - 40960, value)]
      [] address >= 49152 /\ address <= 57343 ->
           [m EXCEPT !.wram = ((address - 49152) :> value) @@ @]
      [] address >= 57344 /\ address <= 65023 ->
           [m EXCEPT !.wram = ((address - 57344) :> value) @@ @]
      [] address >= 65024 /\ address <= 65183 ->
           [m EXCEPT !.ppu = PpuWriteOam(@, address - 65024, value)]
      [] address = 65280 -> [m EXCEPT !.buttons = ButtonsWrite(@, value)]
      [] address >= 65284 /\ address <= 65287 ->
           [m EXCEPT !.timer = TimerWrite(@, address, value)]
      [] address = 65295 -> [m EXCEPT !.interrupt_flags = InterruptsTruncated(value)]
      [] address >= 65296 /\ address <= 65343 ->
           [m EXCEPT !.apu = ApuWrite(@, address, value)]
      [] address >= 65344 /\ address <= 65359 ->
           [m EXCEPT !.ppu = PpuWriteRegisters(@, address, value)]
      [] address = 65360 ->
           IF value # 0 THEN [m EXCEPT !.cart = DisableBootrom(@)] ELSE m
      [] address = 65535 ->
           [m EXCEPT !.interrupt_enable = InterruptsTruncated(value),
                     !.ie_value = value]
      [] OTHER -> m

\* Dma::None and Dma::InProgress
DmaNone == [active |-> FALSE, stored_value |-> 0, offset |-> 0, base_address |-> 0]

DmaInProgress(stored_value, offset, base_address) ==
    [active |-> TRUE, stored_value |-> stored_value, offset |-> offset,
     base_address |-> base_address]

\* the byte the copier fetches; a source cell whose content is not modelled
\* reads as DmaOpenByte
DmaOpenByte == 0

DmaFetch(m, address) == MmuReadByte(m, address, DmaOpenByte)

\* Mmu::tick, the copier after its write to OAM (mmu.rs 139-148)
DmaAdvance(m, offset, base_address) ==
    [m EXCEPT !.dma = IF offset < OAM_SIZE
                      THEN DmaInProgress(DmaFetch(m, base_address + offset),
                                         offset, base_address)
                      ELSE DmaNone]

\* Mmu::tick, the OAM-DMA part (mmu.rs 121-148): a request of the PPU starts
\* the copy, a copy in progress moves one byte
DmaStep(m, dma_request) ==
    IF dma_request # -1
    THEN [m EXCEPT !.dma = DmaInProgress(DmaFetch(m, dma_request * 256), 0,
                                         dma_request * 256)]
    ELSE IF m.dma.active
    THEN DmaAdvance(MmuWriteByte(m, 65024 + m.dma.offset, m.dma.stored_value),
                    m.dma.offset + 1, m.dma.base_address)
    ELSE m

\* what the last tick did, kept for the properties about single ticks
LogOf(m, io, pp) ==
    [timer_before |-> m.timer, timer_after |-> io.timer,
     timer_raised |-> Timer \in io.interrupts,
     vblank_raised |-> VBlank \in pp.interrupts, line_before |-> m.ppu.line_y,
     lcd_on |-> LcdEnable(m.ppu)]

\* the APU in Mmu::tick: inc_div when the timer asks for it, then tick
ApuAfterTick(a, apu_inc_div) == ApuTick(IF apu_inc_div THEN ApuIncDiv(a) ELSE a)

\* Mmu::tick before its OAM-DMA part, once Io::tick has returned io and
\* Ppu::tick pp
AfterTicks(m, io, pp) ==
    [m EXCEPT !.cart = CartridgeTick(@), !.timer = io.timer, !.ppu = pp.ppu,
              !.interrupt_flags = @ \cup io.interrupts \cup pp.interrupts,
              !.apu = ApuAfterTick(@, io.apu_inc_div),
              !.nticks = @ + 1, !.log = LogOf(m, io, pp)]

\* Mmu::tick after Io::tick and Ppu::tick
TickWith(m, io, pp) == DmaStep(AfterTicks(m, io, pp), pp.dma_request)

\* Mmu::tick
MmuTick(m) == TickWith(m, IoTick(m.buttons, m.timer), PpuTick(m.ppu))

----------------------------------------------------------------------------
(* Cpu (cpu/mod.rs, cpu/registers.rs, cpu/instructions.rs).  Arithmetic   *)
(* on pc and sp is that of a build without overflow checks (wrapping).    *)

\* Registers::new
RegistersNew ==
    [a |-> 0, f |-> 0, b |-> 0, c |-> 0, d |-> 0, e |-> 0, h |-> 0, l |-> 0,
     sp |-> 0, pc |-> 0, ime |-> FALSE]

\* Registers::new_post_bootrom
RegistersNewPostBootrom ==
    [a |-> 1, f |-> 176, b |-> 0, c |-> 19, d |-> 0, e |-> 216, h |-> 1,
     l |-> 77, sp |-> 65534, pc |-> 256, ime |-> TRUE]

\* a faulty set_value that keeps all eight bits
FlagsSetValueUntruncated(value) == value

\* Flags::set_value: FlagSet::new_truncated keeps the bits of Z, N, H and C
FlagsSetValue(value) == AndMask(value, {4, 5, 6, 7})

\* Registers::af and Registers::set_af
Af(r) == r.a * 256 + r.f

SetAf(r, value) == [r EXCEPT !.a = value \div 256, !.f = FlagsSetValue(value % 256)]

\* Cpu::tick
CpuTick(m) == [MmuTick(m) EXCEPT !.cycles = @ + 4]

\* a faulty tick_stopped that forgets the cycle counter
CpuTickStoppedNoCycles(m) == MmuTickStopped(m)

\* Cpu::tick_stopped
CpuTickStopped(m) == [MmuTickStopped(m) EXCEPT !.cycles = @ + 4]

\* the read of MemoryOps::read_byte, on the machine the tick left
ReadTicked(m, address, inp) ==
    [m |-> m, value |-> MmuReadByte(m, address, inp)]

\* MemoryOps::read_byte for Cpu: the tick, then the read
ReadByte(m, address, inp) == ReadTicked(CpuTick(m), address, inp)

\* MemoryOps::write_byte for Cpu: the tick, then the write
WriteByte(m, address, value) ==
    [MmuWriteByte(CpuTick(m), address, value) EXCEPT
        !.writes = Append(@, <<address, value>>)]

\* the word MemoryOps::read_dbyte makes of its high-byte read hi
JoinBytes(low, hi) == [m |-> hi.m, value |-> hi.value * 256 + low]

\* MemoryOps::read_dbyte after its low-byte read lo
ReadHigh(lo, address, inp_high) ==
    JoinBytes(lo.value, ReadByte(lo.m, Wrap16(address + 1), inp_high))

\* MemoryOps::read_dbyte: low byte first
ReadDbyte(m, address, inp_low, inp_high) ==
    ReadHigh(ReadByte(m, address, inp_low), address, inp_high)

\* MemoryOps::write_dbyte: high byte first
WriteDbyte(m, address, value) ==
    WriteByte(WriteByte(m, Wrap16(address + 1), value \div 256), address, value % 256)

\* the increment of pc in Cpu::fetch_byte_pc, after its read r
AdvancePc(r) ==
    [m |-> [r.m EXCEPT !.registers.pc = Wrap16(@ + 1)], value |-> r.value]

\* Cpu::fetch_byte_pc
FetchBytePc(m, inp) == AdvancePc(ReadByte(m, m.registers.pc, inp))

\* the increment of sp in Cpu::pop_stack, after its read r
AdvanceSp(r) ==
    [m |-> [r.m EXCEPT !.registers.sp = Wrap16(@ + 2)], value |-> r.value]

\* Cpu::pop_stack
PopStack(m, inp_low, inp_high) ==
    AdvanceSp(ReadDbyte(m, m.registers.sp, inp_low, inp_high))

\* Cpu::push_stack
PushStack(m, value) ==
    LET sp == Wrap16(m.registers.sp + 65534)
    IN WriteDbyte([m EXCEPT !.registers.sp = sp], sp, value)

\* the opcodes OPCODE_TABLE sends to Cpu::ill
IllegalOpcodes == {211, 219, 221, 227, 228, 235, 236, 237, 244, 252, 253}

\* Cpu::ld_r_u8 for A, after the fetch f of the operand
LdAU8(f) == [f.m EXCEPT !.registers.a = f.value]

\* Cpu::ldh_mu8_a, after the fetch f of the operand
LdhMu8A(f) == WriteByte(f.m, 65280 + f.value, f.m.registers.a)

\* the load of A that ends Cpu::ldh_a_mu8, after its read r
LdARead(r) == [r.m EXCEPT !.registers.a = r.value]

\* Cpu::ldh_a_mu8, after the fetch f of the operand
LdhAMu8(f, inp) == LdARead(ReadByte(f.m, 65280 + f.value, inp))

\* Cpu::pop_af, after the pop r
PopAf(r) == [r.m EXCEPT !.registers = SetAf(@, r.value)]

\* Cpu::fetch_dbyte_pc after the fetch lo of its low byte
FetchHigh(lo, inp_high) == JoinBytes(lo.value, FetchBytePc(lo.m, inp_high))

\* Cpu::fetch_dbyte_pc: low byte first
FetchDbytePc(m, inp_low, inp_high) == FetchHigh(FetchBytePc(m, inp_low), inp_high)

\* Cpu::test_cc: NZ, Z, NC, C by bits 3 and 4 of the opcode
TestCc(m, opcode) ==
    CASE (opcode \div 8) % 4 = 0 -> Bit(m.registers.f, 7) = 0
      [] (opcode \div 8) % 4 = 1 -> Bit(m.registers.f, 7) = 1
      [] (opcode \div 8) % 4 = 2 -> Bit(m.registers.f, 4) = 0
      [] (opcode \div 8) % 4 = 3 -> Bit(m.registers.f, 4) = 1

\* Cpu::ld_rr_u16 for SP, after the fetch f of the operand
LdSpU16(f) == [f.m EXCEPT !.registers.sp = f.value]

\* the assignment of pc that ends call_u16 and ret, after the fetch or pop f
SetPc(f) == [f.m EXCEPT !.registers.pc = f.value]

\* Cpu::call_u16: the push of pc, then the fetch of the operand
CallU16(m, b1, b2) == SetPc(FetchDbytePc(PushStack(m, m.registers.pc), b1, b2))

\* Cpu::call_cc_u16, after the fetch f of the operand
CallCcU16(f, opcode) ==
    IF TestCc(f.m, opcode)
    THEN [PushStack(f.m, f.m.registers.pc) EXCEPT !.registers.pc = f.value]
    ELSE f.m

\* Cpu::ret
Ret(m, b1, b2) == SetPc(PopStack(m, b1, b2))

\* The handlers of OPCODE_TABLE, for the opcodes of this development; m is
\* the machine after the opcode fetch, marked with the opcode it fetched, b1
\* and b2 the bytes that reads of unmodelled memory return.
Handler(m, opcode, b1, b2) ==
    CASE opcode = 0 -> m
      [] opcode = 16 -> [m EXCEPT !.execution_state = "Stop"]
      [] opcode = 49 -> LdSpU16(FetchDbytePc(m, b1, b2))
      [] opcode = 62 -> LdAU8(FetchBytePc(m, b1))
      [] opcode = 118 -> [m EXCEPT !.panicked = TRUE]
      [] opcode \in IllegalOpcodes ->
           [m EXCEPT !.execution_state = "IllegalInstruction"]
      [] opcode \in {196, 204} -> CallCcU16(FetchDbytePc(m, b1, b2), opcode)
      [] opcode = 201 -> Ret(m, b1, b2)
      [] opcode = 205 -> CallU16(m, b1, b2)
      [] opcode = 224 -> LdhMu8A(FetchBytePc(m, b1))
      [] opcode = 240 -> LdhAMu8(FetchBytePc(m, b1), b2)
      [] opcode = 241 -> PopAf(PopStack(m, b1, b2))
      [] opcode = 243 -> [m EXCEPT !.registers.ime = FALSE]
      [] opcode = 245 -> PushStack(m, Af(m.registers))
      [] opcode = 251 -> [m EXCEPT !.registers.ime = TRUE]
      [] OTHER -> [m EXCEPT !.op = Op("unmodelled", opcode)]

\* the call through OPCODE_TABLE (cpu/mod.rs 105-106), after the fetch f of
\* the opcode
Execute(f, b1, b2) ==
    Handler([f.m EXCEPT !.op = Op("instr", f.value)], f.value, b1, b2)

\* the delayed enabling of IME (cpu/mod.rs 100-103)
EnableIme(m) ==
    IF m.enable_ime
    THEN [m EXCEPT !.enable_ime = FALSE, !.registers.ime = TRUE]
    ELSE m

\* the end of an interrupt dispatch (cpu/mod.rs 92-96), after the push
Vector(m, interrupt) ==
    [ResetInterrupt(m, interrupt) EXCEPT
        !.registers.pc = InterruptAddress(interrupt),
        !.registers.ime = FALSE,
        !.op = Op("dispatch", 0)]

\* Cpu::next_instruction from the interrupt check on (cpu/mod.rs 89-106)
DispatchOrExecute(m, opcode, b1, b2) ==
    IF m.registers.ime /\ NextInterrupt(m) # -1
    THEN Vector(PushStack(m, m.registers.pc), NextInterrupt(m))
    ELSE Execute(FetchBytePc(EnableIme(m), opcode), b1, b2)

\* a faulty next_instruction in which IllegalInstruction wakes like Halt
NextInstructionIllegalWakes(m, opcode, b1, b2) ==
    IF m.execution_state = "Continue"
       \/ (m.execution_state # "Continue" /\ Interrupts(m) # {})
    THEN DispatchOrExecute([m EXCEPT !.execution_state = "Continue"], opcode, b1, b2)
    ELSE IF m.execution_state = "Stop"
    THEN [CpuTickStopped(m) EXCEPT !.op = Op("idle", 0)]
    ELSE [CpuTick(m) EXCEPT !.op = Op("idle", 0)]

\* Cpu::next_instruction
NextInstruction(m, opcode, b1, b2) ==
    CASE m.execution_state = "Continue" -> DispatchOrExecute(m, opcode, b1, b2)
      [] m.execution_state = "Halt" ->
           IF Interrupts(m) = {}
           THEN [CpuTick(m) EXCEPT !.op = Op("idle", 0)]
           ELSE DispatchOrExecute([m EXCEPT !.execution_state = "Continue"],
                                  opcode, b1, b2)
      [] m.execution_state = "Stop" ->
           IF Interrupts(m) = {}
           THEN [CpuTickStopped(m) EXCEPT !.op = Op("idle", 0)]
           ELSE DispatchOrExecute([m EXCEPT !.execution_state = "Continue"],
                                  opcode, b1, b2)
      [] m.execution_state = "IllegalInstruction" ->
           [CpuTick(m) EXCEPT !.op = Op("idle", 0)]

----------------------------------------------------------------------------
(* The instruction-stepped machine: Gameboy::run_instruction and           *)
(* Gameboy::set_button, from the two constructions of Cpu::new.            *)

\* run_instruction is taken while the cycle counter is below this bound
MaxCycles == 40

\* the opcodes the program under execution is made of
Opcodes == {0, 16, 62, 118, 211, 224, 241, 243, 251}

\* the bytes unmodelled memory returns to the reads that follow the opcode:
\* interrupt masks for LD A,d8; IF and IE for LDH (a8),A; a stack word with
\* every bit of the flags byte set for POP AF
Operands(opcode) ==
    CASE opcode = 62 -> {<<20, 0>>, <<31, 0>>}
      [] opcode = 224 -> {<<15, 0>>, <<255, 0>>}
      [] opcode = 241 -> {<<255, 31>>}
      [] OTHER -> {<<0, 0>>}

\* the buttons the frontend presses and releases
ButtonInputs == {"A", "Right"}

LogNew ==
    [timer_before |-> TimerNew, timer_after |-> TimerNew,
     timer_raised |-> FALSE, vblank_raised |-> FALSE,
     line_before |-> 0, lcd_on |-> FALSE]

\* the last access to the bus of the Mmu: a read with the byte it returned,
\* a write with the byte written; before is what the cell held when the
\* access was made
Bus(kind, address, value, before) ==
    [kind |-> kind, address |-> address, value |-> value, before |-> before]

BusNone == Bus("none", 0, 0, 0)

\* the header of a 32 KiB cartridge without a mapper
HeaderRomOnly == [mapper_id |-> 0, rom_code |-> 0, ram_code |-> 0]

\* Gameboy::new for a cartridge of header h, with a boot ROM (Registers::new,
\* Ppu::new) or without one
ConstructedWith(h, image) ==
    /\ \/ /\ registers = RegistersNew
          /\ ppu = PpuNew
          /\ cart = CartridgeNew(h, TRUE, image)
       \/ /\ registers = RegistersNewPostBootrom
          /\ ppu = PpuNewPostBootrom
          /\ cart = CartridgeNew(h, FALSE, image)
    /\ wram = <<>>
    /\ dma = DmaNone
    /\ apu = ApuNew
    /\ bus = BusNone
    /\ enable_ime = FALSE
    /\ cycles = 0
    /\ execution_state = "Continue"
    /\ interrupt_flags = {}
    /\ interrupt_enable = {}
    /\ ie_value = 0
    /\ buttons = ButtonsNew
    /\ timer = TimerNew
    /\ panicked = FALSE
    /\ ret = 0
    /\ nticks = 0
    /\ last_op = Op("none", 0)
    /\ log = LogNew
    /\ writes = <<>>
    /\ line_ticks = 0
    /\ frame_ticks = 0
    /\ frames = 0
    /\ frame_vblanks = 0

\* Gameboy::new for a ROM-only cartridge whose image is left open
Constructed == ConstructedWith(HeaderRomOnly, "any")

Init == Constructed

\* the machine becomes the state
Store(m) ==
    /\ registers' = m.registers
    /\ enable_ime' = m.enable_ime
    /\ cycles' = m.cycles
    /\ execution_state' = m.execution_state
    /\ interrupt_flags' = m.interrupt_flags
    /\ interrupt_enable' = m.interrupt_enable
    /\ ie_value' = m.ie_value
    /\ buttons' = m.buttons
    /\ timer' = m.timer
    /\ ppu' = m.ppu
    /\ wram' = m.wram
    /\ dma' = m.dma
    /\ cart' = m.cart
    /\ apu' = m.apu
    /\ panicked' = m.panicked
    /\ log' = m.log

\* the end of Gameboy::run_instruction, m being the machine that
\* Cpu::next_instruction left: the value returned is the difference of
\* Cpu.cycles; a step that panics returns nothing
Returned(m) ==
    /\ m.op.kind # "unmodelled"
    /\ Store(m)
    /\ ret' = IF m.panicked THEN ret ELSE m.cycles - cycles
    /\ nticks' = m.nticks
    /\ last_op' = m.op
    /\ writes' = m.writes
    /\ UNCHANGED <<bus, line_ticks, frame_ticks, frames, frame_vblanks>>

\* Gameboy::run_instruction (the debugger is off)
RunInstruction(opcode, b1, b2) ==
    /\ ~panicked
    /\ cycles < MaxCycles
    /\ Returned(NextInstruction(Machine, opcode, b1, b2))

\* Gameboy::set_button
SetButton(button, set) ==
    /\ ~panicked
    /\ buttons' = ButtonsSetButton(buttons, button, set)
    /\ last_op' = Op("button", 0)
    /\ UNCHANGED <<registers, enable_ime, cycles, execution_state, interrupt_flags,
                   interrupt_enable, ie_value, timer, ppu, wram, dma, cart, apu,
                   bus, panicked, ret, nticks, log, writes, line_ticks,
                   frame_ticks, frames, frame_vblanks>>

Next ==
    \/ \E opcode \in Opcodes : \E b \in Operands(opcode) :
          RunInstruction(opcode, b[1], b[2])
    \/ \E button \in ButtonInputs, set \in BOOLEAN : SetButton(button, set)

Spec == Init /\ [][Next]_vars

----------------------------------------------------------------------------
(* Properties of the instruction-stepped machine.                          *)

\* a run_instruction step is being taken (set_button leaves the counter alone)
StepTaken == cycles' > cycles

\* the pending source the fixed order VBlank, LcdStat, Timer, Serial, Joypad
\* ranks first (the order of the bits of IF)
HighestPending == CHOOSE i \in interrupt_flags \cap interrupt_enable :
                     \A j \in interrupt_flags \cap interrupt_enable : i <= j

DispatchedHighest ==
    /\ last_op'.kind = "dispatch"
    /\ registers'.pc = InterruptAddress(HighestPending)
    /\ registers'.sp = Wrap16(registers.sp + 65534)
    /\ writes' = << <<Wrap16(registers.sp + 65535), registers.pc \div 256>>,
                    <<Wrap16(registers.sp + 65534), registers.pc % 256>> >>
    /\ ~registers'.ime
    /\ HighestPending \notin interrupt_flags'
    /\ (interrupt_flags \ {HighestPending}) \subseteq interrupt_flags'

\* C2 (amended): a step that begins outside IllegalInstruction with IME set
\* and IE & IF nonempty dispatches the highest-priority pending source: it
\* pushes PC (high byte at sp-1, low byte at sp-2), jumps to the vector,
\* clears IME and the serviced bit of IF and no other bit; a step that begins
\* with IME clear, or with nothing pending, dispatches nothing.
C2_DispatchUnlessIllegal ==
    [][(StepTaken /\ execution_state # "IllegalInstruction")
          => IF registers.ime /\ interrupt_flags \cap interrupt_enable # {}
             THEN DispatchedHighest
             ELSE last_op'.kind # "dispatch"]_vars

\* C2 witness: with two sources pending (IE = IF = 0x1F at least VBlank and
\* Joypad) the step serviced VBlank and left Joypad requested
C2_Witness ==
    /\ last_op.kind = "dispatch"
    /\ registers.pc = 64
    /\ Joypad \in interrupt_flags
    /\ VBlank \notin interrupt_flags

\* C2 as stated: every step that begins with IME set and IE & IF nonempty
\* dispatches, whatever the execution state
C2_AsStated ==
    [][StepTaken
          => IF registers.ime /\ interrupt_flags \cap interrupt_enable # {}
             THEN DispatchedHighest
             ELSE last_op'.kind # "dispatch"]_vars

\* C3: EI leaves IME as it was until the following instruction has executed;
\* DI clears IME in the step that executes it.
C3_EiDeferred ==
    [][(StepTaken /\ last_op'.kind = "instr")
          => /\ (last_op'.opcode = 251 /\ ~registers.ime) => ~registers'.ime
             /\ last_op'.opcode = 243 => ~registers'.ime]_vars

\* C4: executing HALT enters Halt; a halted step with nothing pending ticks
\* once (4 cycles) and stays halted; a halted step with IE & IF nonempty
\* leaves Halt whatever IME is.
C4_Halt ==
    [][StepTaken
          => /\ (last_op'.kind = "instr" /\ last_op'.opcode = 118)
                   => execution_state' = "Halt"
             /\ (execution_state = "Halt" /\ interrupt_flags \cap interrupt_enable = {})
                   => (execution_state' = "Halt" /\ cycles' = cycles + 4)
             /\ (execution_state = "Halt" /\ interrupt_flags \cap interrupt_enable # {})
                   => execution_state' # "Halt"]_vars

\* C5: an illegal opcode latches IllegalInstruction; from then on every step
\* is one bus tick, PC never changes and the state never leaves
\* IllegalInstruction, whatever IE, IF and IME are.
C5_IllegalLatched ==
    [][/\ (StepTaken /\ last_op'.kind = "instr" /\ last_op'.opcode \in IllegalOpcodes)
             => execution_state' = "IllegalInstruction"
       /\ execution_state = "IllegalInstruction"
             => /\ execution_state' = "IllegalInstruction"
                /\ registers'.pc = registers.pc
                /\ StepTaken => (nticks' = 1 /\ cycles' = cycles + 4
                                 /\ last_op'.kind = "idle")]_vars

\* C5 witness: the latched CPU has ticked idle with IME set and an enabled
\* interrupt pending
C5_Witness ==
    /\ execution_state = "IllegalInstruction"
    /\ last_op.kind = "idle"
    /\ registers.ime
    /\ interrupt_flags \cap interrupt_enable # {}

\* C6: a step in Stop that stays in Stop advances neither the timer nor the
\* PPU; once a button press has raised the Joypad bit of IF the next step
\* leaves Stop.
C6_StopWakesOnJoypad ==
    [][(StepTaken /\ execution_state = "Stop")
          => /\ execution_state' = "Stop" => (timer' = timer /\ ppu' = ppu)
             /\ Joypad \in interrupt_flags => execution_state' # "Stop"]_vars

\* C7: the low nibble of F is zero in every state, POP AF included.
C7_FlagsLowNibble == registers.f % 16 = 0

\* C7 witness: POP AF has popped a word whose low byte is 0xFF and left F = 0xF0
C7_Witness ==
    /\ last_op = Op("instr", 241)
    /\ registers.f = 240
    /\ registers.a = 31

----------------------------------------------------------------------------
(* The PPU one bus access at a time: every access ticks the PPU once      *)
(* (Mmu::tick), and a write access then stores its byte (Cpu::write_byte, *)
(* Ppu::write_registers).                                                  *)

\* accesses are taken until LY has wrapped this many times
MaxFrames == 1

\* the lines and the ticks within a line at which the program under
\* execution switches the LCD off
OffLines == {0, 143, 150}
OffPhases == {10, 50, 100}

\* the bytes the program writes to LCDC: LCD off, LCD on
LcdcValues == {16, 144}

\* the observation of one access: p is the PPU after the access
PpuObserve(pp, p) ==
    LET ticked == LcdEnable(ppu)
        newline == ticked /\ pp.ppu.line_y # ppu.line_y
        enabled == ~LcdEnable(pp.ppu) /\ LcdEnable(p)
    IN /\ ppu' = p
       /\ log' = [log EXCEPT !.vblank_raised = VBlank \in pp.interrupts,
                             !.line_before = ppu.line_y, !.lcd_on = ticked]
       /\ line_ticks' = IF ~ticked \/ newline \/ enabled THEN 0 ELSE line_ticks + 1
       /\ frame_ticks' = IF ~ticked \/ enabled \/ (newline /\ pp.ppu.line_y = 0)
                         THEN 0 ELSE frame_ticks + 1
       /\ frames' = IF newline /\ pp.ppu.line_y = 0 THEN frames + 1 ELSE frames
       /\ frame_vblanks' = IF ~ticked \/ enabled \/ (newline /\ pp.ppu.line_y = 0)
                           THEN 0
                           ELSE frame_vblanks
                                + (IF VBlank \in pp.interrupts THEN 1 ELSE 0)
       /\ UNCHANGED <<registers, enable_ime, cycles, execution_state,
                      interrupt_flags, interrupt_enable, ie_value, buttons, timer,
                      wram, dma, cart, apu, bus, panicked, ret, nticks, last_op,
                      writes>>

\* an access that writes no PPU register
PpuAccess ==
    /\ frames < MaxFrames
    /\ PpuObserve(PpuTick(ppu), PpuTick(ppu).ppu)

\* a write of LCDC (FF40)
PpuWriteLcdc(value) ==
    /\ frames < MaxFrames
    /\ Bit(value, 7) = 0 =>
          (ppu.line_y \in OffLines /\ ppu.line_cycles_count \in OffPhases)
    /\ PpuObserve(PpuTick(ppu), PpuWriteRegisters(PpuTick(ppu).ppu, 65344, value))

NextPpu ==
    \/ PpuAccess
    \/ \E value \in LcdcValues : PpuWriteLcdc(value)

SpecPpu == Constructed /\ [][NextPpu]_vars

\* C8: while the LCD is on LY goes from each line to the next of 0..153 and
\* back to 0, every line lasts 114 ticks (456 cycles) and every frame
\* 154 * 114 ticks (70,224 cycles).
C8_LineAndFrameLength ==
    [][(LcdEnable(ppu) /\ ppu'.line_y # ppu.line_y)
          => /\ ppu'.line_y = (ppu.line_y + 1) % LINES_PER_FRAME
             /\ line_ticks + 1 = CYCLES_PER_LINE
             /\ ppu'.line_y = 0 => 4 * (frame_ticks + 1) = 70224]_vars

\* C9: the PPU raises VBlank on a tick exactly when that tick takes LY from
\* 143 to 144, so once in every frame, and with the LCD on the mode is 1 on
\* the lines 144-153.
C9_VBlankOncePerFrame ==
    [][/\ log'.vblank_raised
             <=> (LcdEnable(ppu) /\ ppu.line_y = 143 /\ ppu'.line_y = 144)
       /\ (LcdEnable(ppu) /\ ppu.line_y = 153 /\ ppu'.line_y = 0)
             => frame_vblanks = 1
       /\ (LcdEnable(ppu') /\ ppu'.line_y >= 144)
             => (ppu'.mode = VBlankMode /\ frame_vblanks' = 1)]_vars

\* C9 witness: a frame is over, LY back at 0 after one VBlank interrupt
C9_Witness == frames = 1 /\ ppu.line_y = 0 /\ LcdEnable(ppu) /\ frame_ticks = 0

----------------------------------------------------------------------------
(* The timer one bus access at a time: every access ticks the timer once  *)
(* (Mmu::tick, Io::tick), and a write access then stores its byte          *)
(* (Cpu::write_byte, Io::write, Timer::write).                             *)

\* accesses are taken while the divider is below this bound
MaxDivider == 64

\* the bytes the program writes to DIV, TIMA, TMA and TAC (enabled with the
\* 16-cycle and the 64-cycle clock, disabled)
TimerWrites ==
    {<<65284, 0>>, <<65285, 254>>, <<65286, 240>>, <<65287, 5>>, <<65287, 6>>,
     <<65287, 1>>}

\* the observation of one access: t is the timer after the access
TimerObserve(tt, t) ==
    /\ timer' = t
    /\ log' = [log EXCEPT !.timer_before = timer, !.timer_after = tt.timer,
                          !.timer_raised = tt.timer_overflow]
    /\ UNCHANGED <<registers, enable_ime, cycles, execution_state, interrupt_flags,
                   interrupt_enable, ie_value, buttons, ppu, wram, dma, cart, apu,
                   bus, panicked, ret, nticks, last_op, writes, line_ticks,
                   frame_ticks, frames, frame_vblanks>>

\* an access that writes no timer register
TimerAccess ==
    /\ timer.divider < MaxDivider
    /\ TimerObserve(TimerTick(timer), TimerTick(timer).timer)

\* a write of DIV, TIMA, TMA or TAC
TimerWriteAccess(address, value) ==
    /\ timer.divider < MaxDivider
    /\ TimerObserve(TimerTick(timer), TimerWrite(TimerTick(timer).timer, address, value))

NextTimer ==
    \/ TimerAccess
    \/ \E w \in TimerWrites : TimerWriteAccess(w[1], w[2])

SpecTimer == Constructed /\ [][NextTimer]_vars

\* the tick of the access l records made TIMA overflow
TickOverflowed(l) ==
    l.timer_before.state = "Normal" /\ l.timer_after.state = "Overflowed"

\* C10: the tick on which TIMA overflows raises no Timer interrupt; the next
\* tick sets TIMA to TMA and raises it; the interrupt is raised only for an
\* overflow that is waiting.
C10_ReloadOnNextTick ==
    [][/\ TickOverflowed(log') => ~log'.timer_raised
       /\ TickOverflowed(log)
             => /\ log'.timer_raised
                /\ log'.timer_after.counter = log'.timer_before.modulo
       /\ log'.timer_raised => timer.state = "Overflowed"]_vars

\* the bit of the DIV counter that TAC selected before the tick the log
\* records (InputClock::bit)
LoggedClockBit == InputClockBit(log.timer_before.input_clock)

\* the tick the log records changed the bit TAC selects
LoggedBitChanged ==
    Bit(log.timer_before.divider, LoggedClockBit)
        # Bit(log.timer_after.divider, LoggedClockBit)

\* the tick the log records added one to TIMA
LoggedCounterIncremented ==
    log.timer_after.counter = (log.timer_before.counter + 1) % 256

----------------------------------------------------------------------------
(* The bus one CPU access at a time: MemoryOps::read_byte and write_byte  *)
(* for Cpu tick the machine once (Cpu::tick, Mmu::tick) and then make the *)
(* access (Mmu::read_byte, Mmu::write_byte).                               *)

\* what a cell of OAM, VRAM or work RAM holds, whatever the PPU is doing
CellAt(m, address) ==
    CASE address >= 32768 /\ address <= 40959 ->
           IF address - 32768 \in DOMAIN m.ppu.vram THEN m.ppu.vram[address - 32768]
           ELSE 0
      [] address >= 49152 /\ address <= 57343 -> WramAt(m.wram, address - 49152)
      [] address >= 65024 /\ address <= 65183 -> m.ppu.oam[address - 65024]
      [] OTHER -> 0

\* the machine m an access left becomes the state, b is the access and op
\* what is remembered of the accesses so far
AccessStored(m, b, op) ==
    /\ Store(m)
    /\ bus' = b
    /\ last_op' = op
    /\ UNCHANGED <<ret, nticks, writes, line_ticks, frame_ticks, frames,
                   frame_vblanks>>

BusStored(m, b) == AccessStored(m, b, last_op)

\* Cpu::read_byte once it has returned r
ReadSeen(r, address) ==
    BusStored(r.m, Bus("read", address, r.value, CellAt(r.m, address)))

\* Cpu::write_byte on the machine m its tick left
WriteSeen(m, address, value) ==
    BusStored(MmuWriteByte(m, address, value),
              Bus("write", address, value, CellAt(m, address)))

\* accesses are made while the cycle counter is below this bound: a little
\* more than the 144 visible lines
MaxBusCycles == 66120

\* the program under execution reads and writes OAM and VRAM on these lines
AccessLines == {0, 1, 144}

\* and during this many cycles after power-on while the LCD is off
AccessCycles == 456

\* the cells it accesses: the last byte of OAM and the first byte of VRAM
AccessCells == {65183, 32768}

\* the bytes it writes
AccessValues == {90, 165}

AccessTime ==
    /\ cycles < MaxBusCycles
    /\ IF LcdEnable(ppu) THEN ppu.line_y \in AccessLines ELSE cycles < AccessCycles

\* a CPU cycle without an access to OAM or VRAM
BusIdle ==
    /\ cycles < MaxBusCycles
    /\ BusStored(CpuTick(Machine), BusNone)

\* MemoryOps::read_byte for Cpu
BusRead(address) ==
    /\ AccessTime
    /\ ReadSeen(ReadByte(Machine, address, 0), address)

\* MemoryOps::write_byte for Cpu
BusWrite(address, value) ==
    /\ AccessTime
    /\ WriteSeen(CpuTick(Machine), address, value)

NextBus ==
    \/ BusIdle
    \/ \E address \in AccessCells : BusRead(address)
    \/ \E address \in AccessCells, value \in AccessValues : BusWrite(address, value)

SpecBus == Constructed /\ [][NextBus]_vars

IsOam(address) == address >= 65024 /\ address <= 65183
IsVram(address) == address >= 32768 /\ address <= 40959

\* the region of the cell last accessed is locked by the mode the PPU is in
BusLocked ==
    \/ IsOam(bus.address) /\ ppu.mode \in {OamSearchMode, PixelTransferMode}
    \/ IsVram(bus.address) /\ ppu.mode = PixelTransferMode

\* C12: a CPU read of OAM in mode 2 or 3, or of VRAM in mode 3, returns 0xFF
\* and a CPU write then leaves the cell as it was; in the other modes a read
\* returns the byte the cell holds and a write stores its byte.
C12_LockedRegions ==
    /\ bus.kind = "read" =>
          bus.value = (IF BusLocked THEN 255 ELSE bus.before)
    /\ bus.kind = "write" =>
          CellAt(Machine, bus.address) = (IF BusLocked THEN bus.before ELSE bus.value)

\* C12 witness: a read of OAM during the OAM search returned 0xFF although
\* the cell holds a byte written during an earlier HBlank
C12_Witness ==
    /\ bus.kind = "read"
    /\ IsOam(bus.address)
    /\ ppu.mode = OamSearchMode
    /\ bus.before = 90
    /\ bus.value = 255

----------------------------------------------------------------------------
(* OAM DMA: the program stores the bytes 0..159 at C000-C09F, waits, writes *)
(* 0xC0 to FF46 and lets the machine run.  Every step is one CPU cycle     *)
(* (Cpu::tick), the stores and the write of FF46 are Cpu::write_byte.       *)

\* the program waits at most this many cycles before it writes FF46, so that
\* the transfer starts at any point of a line
MaxDmaWait == 114

\* the machine is watched for this many cycles after the write of FF46
MaxDmaTicks == 164

\* map::WRAM_START, where the pattern is stored
WRAM_START == 49152

\* the address the copy reads from and the byte written to FF46 for it
DmaSource == WRAM_START
DmaSourceHigh == DmaSource \div 256

\* the machine m a step left becomes the state; op is where the program is
\* and n the number of cycles since the write of FF46
DmaStored(m, op, n) ==
    /\ Store(m)
    /\ last_op' = op
    /\ nticks' = n
    /\ UNCHANGED <<bus, ret, writes, line_ticks, frame_ticks, frames, frame_vblanks>>

\* the next byte of the pattern is stored
StorePattern ==
    /\ last_op.kind \in {"none", "store"}
    /\ last_op.opcode < OAM_SIZE
    /\ DmaStored(MmuWriteByte(CpuTick(Machine), DmaSource + last_op.opcode,
                              last_op.opcode),
                 Op("store", last_op.opcode + 1), 0)

\* the pattern is stored and FF46 not written yet
DmaReady ==
    \/ last_op = Op("store", OAM_SIZE)
    \/ last_op.kind = "wait"

\* a cycle spent before the write of FF46
DmaWait ==
    /\ DmaReady
    /\ last_op.kind = "wait" => last_op.opcode < MaxDmaWait
    /\ DmaStored(CpuTick(Machine),
                 Op("wait", IF last_op.kind = "wait" THEN last_op.opcode + 1 ELSE 1), 0)

\* the write of 0xC0 to FF46
DmaStart ==
    /\ DmaReady
    /\ DmaStored(MmuWriteByte(CpuTick(Machine), 65350, DmaSourceHigh), Op("dma", 0), 0)

\* a cycle after the write of FF46
DmaRun ==
    /\ last_op.kind = "dma"
    /\ nticks < MaxDmaTicks
    /\ DmaStored(CpuTick(Machine), last_op, nticks + 1)

NextDma ==
    \/ StorePattern
    \/ DmaWait
    \/ DmaStart
    \/ DmaRun

SpecDma == Constructed /\ [][NextDma]_vars

\* OAM holds the pattern
OamIsPattern == \A i \in 0..(OAM_SIZE - 1) : ppu.oam[i] = i

\* the cycles the copy takes in Mmu::tick: one to take the request, 160 to
\* write the bytes
DmaLength == OAM_SIZE + 1

\* C13: with the bytes 0..159 at C000-C09F, once the transfer that a write of
\* 0xC0 to FF46 asked for has had the time to complete, OAM holds the
\* pattern, whatever the PPU was doing.
C13_DmaCopiesPattern ==
    (last_op.kind = "dma" /\ nticks >= DmaLength) => OamIsPattern

----------------------------------------------------------------------------
(* The boot ROM latch: CPU reads of the first page, writes of FF50 and     *)
(* writes to the first page, on a ROM-only cartridge whose image holds in  *)
(* every byte the number of its bank.                                      *)

\* accesses are made while the cycle counter is below this bound
MaxBootCycles == 40

\* the cells of the first page the program reads
BootReads == {0, 255, 256}

\* what it writes: FF50 with zero and with nonzero bytes, and a byte to the
\* first page
BootWrites == {<<65360, 0>>, <<65360, 1>>, <<65360, 128>>, <<0, 90>>}

\* a nonzero byte has been written to FF50
Latched == last_op.kind = "latched"

BootIdle ==
    /\ cycles < MaxBootCycles
    /\ BusStored(CpuTick(Machine), BusNone)

BootRead(address) ==
    /\ cycles < MaxBootCycles
    /\ ReadSeen(ReadByte(Machine, address, 0), address)

BootWrite(address, value) ==
    /\ cycles < MaxBootCycles
    /\ AccessStored(MmuWriteByte(CpuTick(Machine), address, value),
                    Bus("write", address, value, 0),
                    IF address = 65360 /\ value # 0 THEN Op("latched", 0) ELSE last_op)

NextBoot ==
    \/ BootIdle
    \/ \E address \in BootReads : BootRead(address)
    \/ \E w \in BootWrites : BootWrite(w[1], w[2])

SpecBoot == ConstructedWith(HeaderRomOnly, "banked") /\ [][NextBoot]_vars

\* C14: once a nonzero byte has been written to FF50 the boot ROM stays
\* disabled, whatever is written to FF50 later, and every read of
\* 0000-00FF returns the byte of the cartridge ROM.
C14_BootromLatched ==
    Latched =>
        /\ ~cart.bootrom_enabled
        /\ (bus.kind = "read" /\ bus.address <= 255)
              => bus.value = RomAt(cart, bus.address, 0)

\* C14 witness: on a machine built with a boot ROM whose first byte the
\* program has overwritten, a read of 0000 after the latch returned the
\* byte of the cartridge
C14_Witness ==
    /\ Latched
    /\ cart.bootrom
    /\ 0 \in DOMAIN cart.bootrom_written
    /\ bus = Bus("read", 0, 0, 0)

----------------------------------------------------------------------------
(* The cartridge through the bus of the Mmu: Mmu::read_byte and            *)
(* Mmu::write_byte on cartridges of every mapper with RAM, whose images    *)
(* hold in every byte the number of its bank.  writes keeps the last two   *)
(* bytes written with their addresses.                                     *)

\* the headers: MBC1 with 8 and with 64 ROM banks, MBC2, MBC3, MBC5, all
\* with battery, the MBC1, MBC3 and MBC5 ones with 32 KiB of RAM
CartHeaders ==
    {[mapper_id |-> 3, rom_code |-> 2, ram_code |-> 3],
     [mapper_id |-> 3, rom_code |-> 5, ram_code |-> 3],
     [mapper_id |-> 6, rom_code |-> 2, ram_code |-> 0],
     [mapper_id |-> 19, rom_code |-> 2, ram_code |-> 3],
     [mapper_id |-> 27, rom_code |-> 2, ram_code |-> 3]}

\* what the program writes: RAM enable, the bank registers at 2000 and 4000,
\* the mode at 6000, a byte to external RAM
CartWrites ==
    {<<0, 10>>, <<8192, 0>>, <<8192, 2>>, <<8192, 32>>, <<16384, 1>>,
     <<24576, 1>>, <<40960, 90>>}

\* what it reads: the high window and external RAM
CartReads == {16384, 40960}

\* the last two writes, w being the latest
LastTwo(ws, w) == IF ws = <<>> THEN <<w>> ELSE <<ws[Len(ws)], w>>

\* the machine m an access left becomes the state; an index out of bounds
\* or a panic! arm of the mapper ends the process
CartStored(m, b, ws) ==
    /\ Store([m EXCEPT !.panicked = m.cart.fault \/ b.value = -1])
    /\ bus' = b
    /\ writes' = ws
    /\ UNCHANGED <<ret, nticks, last_op, line_ticks, frame_ticks, frames,
                   frame_vblanks>>

\* Mmu::read_byte
CartRead(address) ==
    /\ ~panicked
    /\ CartStored(Machine, Bus("read", address, MmuReadByte(Machine, address, 0), 0),
                  writes)

\* Mmu::write_byte
CartWrite(address, value) ==
    /\ ~panicked
    /\ CartStored(MmuWriteByte(Machine, address, value),
                  Bus("write", address, value, 0),
                  LastTwo(writes, <<address, value>>))

NextCart ==
    \/ \E address \in CartReads : CartRead(address)
    \/ \E w \in CartWrites : CartWrite(w[1], w[2])

SpecCart == (\E h \in CartHeaders : ConstructedWith(h, "banked")) /\ [][NextCart]_vars

\* the boot ROM is not mapped over the first page
BootromUnmapped == ~(cart.bootrom /\ cart.bootrom_enabled)

\* the last access was a read of address
ReadOf(address) == bus.kind = "read" /\ bus.address = address

\* C15: on a cartridge with RAM, with the boot ROM unmapped, a read of A000
\* that follows the writes of 0x0A to 0000 and of V to A000 returns V (its
\* low four bits on MBC2, whose RAM is four bits wide).
C15_RamReadBack ==
    (/\ BootromUnmapped
     /\ cart.ram_len > 0
     /\ Len(writes) = 2
     /\ writes[1] = <<0, 10>>
     /\ writes[2][1] = 40960
     /\ ReadOf(40960))
        => IF cart.kind = "Mbc2" THEN bus.value % 16 = writes[2][2] % 16
           ELSE bus.value = writes[2][2]

\* C16: on an MBC1 cartridge of at most 32 banks, after a write of v to 2000
\* with v one of its banks, a read of the high window returns the byte of
\* bank v, and of bank 1 for v = 0.
C16_Mbc1SelectsBank ==
    (/\ cart.kind = "Mbc1"
     /\ cart.rom_bank_count <= 32
     /\ writes # <<>>
     /\ writes[Len(writes)][1] = 8192
     /\ writes[Len(writes)][2] < cart.rom_bank_count
     /\ ReadOf(16384))
        => bus.value = (IF writes[Len(writes)][2] = 0 THEN 1
                        ELSE writes[Len(writes)][2])

\* C17: on an MBC1 cartridge of 64 banks or more whose upper bank register
\* holds 1, after a write of 0x20 to 2000 a read of the high window returns
\* the byte of bank 0x21.
C17_Mbc1Bank21 ==
    (/\ cart.kind = "Mbc1"
     /\ cart.rom_bank_count >= 64
     /\ cart.mode_register = 1
     /\ writes # <<>>
     /\ writes[Len(writes)] = <<8192, 32>>
     /\ ReadOf(16384))
        => bus.value = 33

----------------------------------------------------------------------------
(* The APU registers through the bus of the Mmu (Mmu::read_byte,           *)
(* Mmu::write_byte) with ticks of the machine (Mmu::tick) in between.  The *)
(* program writes 0xFF to FF10..FF25 in ascending order and switches the   *)
(* APU on or off before, halfway and afterwards; then it writes wave RAM,  *)
(* writes registers while the APU is off and reads every register.         *)
(* last_op counts the registers filled, writes holds the last write when   *)
(* it was one of FF26, bus.before is the APU before the last write.        *)

\* the machine is ticked at most this many times
MaxApuTicks == 2

\* FF10, FF25, FF26 and the number of registers in FF10..FF25
ApuFirst == 65296
ApuLast == 65317
ApuPowerAddress == 65318
ApuRegisterCount == ApuLast - ApuFirst + 1

IsApuRegister(address) == address >= ApuFirst /\ address <= ApuLast
IsWaveRam(address) == address >= 65328 /\ address <= 65343

\* the bytes written to FF26: power on, power off with and without the
\* other bits
PowerValues == {128, 0, 127}

\* FF26 is written when this many registers have been filled
PowerPoints == {0, 11, ApuRegisterCount}

\* all the registers have been filled
Filled == last_op.opcode = ApuRegisterCount

\* the wave RAM cells the program writes, and the byte
WaveCells == {65328, 65343}
WaveValue == 90

\* the bytes written to the registers while the APU is off
PokeValues == {0, 255}

\* the machine m an access or a tick left becomes the state
ApuStored(m, b, op, ws, n) ==
    /\ Store(m)
    /\ bus' = b
    /\ last_op' = op
    /\ writes' = ws
    /\ nticks' = n
    /\ UNCHANGED <<ret, line_ticks, frame_ticks, frames, frame_vblanks>>

\* Mmu::write_byte to an address of the APU
ApuWritten(address, value, op) ==
    ApuStored(MmuWriteByte(Machine, address, value),
              Bus("write", address, value, apu), op,
              IF address = ApuPowerAddress THEN << <<address, value>> >> ELSE <<>>,
              nticks)

\* the next register is filled
ApuFill ==
    /\ last_op.opcode < ApuRegisterCount
    /\ ApuWritten(ApuFirst + last_op.opcode, 255, Op("fill", last_op.opcode + 1))

\* a write of FF26
ApuPower(value) ==
    /\ last_op.opcode \in PowerPoints
    /\ ApuWritten(ApuPowerAddress, value, last_op)

\* a write of wave RAM
ApuWave(address) ==
    /\ Filled
    /\ ApuWritten(address, WaveValue, last_op)

\* a write of a register while the APU is off
ApuPoke(address, value) ==
    /\ Filled
    /\ ~apu.enable_apu
    /\ ApuWritten(address, value, last_op)

\* Mmu::read_byte of an address of the APU
ApuReadReg(address) ==
    /\ Filled
    /\ ApuStored(Machine,
                 Bus("read", address, MmuReadByte(Machine, address, 0), bus.before),
                 last_op, writes, nticks)

\* Mmu::tick
ApuTickStep ==
    /\ Filled
    /\ nticks < MaxApuTicks
    /\ ApuStored(MmuTick(Machine), bus, last_op, writes, nticks + 1)

NextApu ==
    \/ ApuFill
    \/ \E value \in PowerValues : ApuPower(value)
    \/ \E address \in WaveCells : ApuWave(address)
    \/ \E address \in ApuFirst..ApuLast, value \in PokeValues : ApuPoke(address, value)
    \/ \E address \in ApuFirst..65343 : ApuReadReg(address)
    \/ ApuTickStep

SpecApu == Constructed /\ [][NextApu]_vars

\* what FF10..FF25 read with every readable bit 0: the unused and the
\* write-only bits read 1
ClearedRead ==
    <<128, 63, 0, 255, 191, 255, 63, 0, 255, 191, 127, 255, 159, 255, 191, 255,
      255, 0, 0, 191, 0, 0>>

\* the last write switched the APU off
PoweredOff == writes # <<>> /\ writes[1][2] < 128

\* C18: after a write of FF26 with bit 7 clear, and until the next write, a
\* read of FF10..FF25 returns 0 in every readable bit and wave RAM holds
\* what it held before the write.
C18_PowerOffClears ==
    PoweredOff =>
        /\ (bus.kind = "read" /\ IsApuRegister(bus.address))
              => bus.value = ClearedRead[bus.address - ApuFirst + 1]
        /\ apu.wave_pattern = bus.before.wave_pattern
        /\ (bus.kind = "read" /\ IsWaveRam(bus.address))
              => bus.value = bus.before.wave_pattern[bus.address % 16]

\* C18 witness: FF25 read 0 after a power-off that found 0xFF in it, with
\* wave RAM written before
C18_Witness ==
    /\ PoweredOff
    /\ bus.kind = "read"
    /\ bus.address = ApuLast
    /\ bus.value = 0
    /\ bus.before.enable_apu
    /\ SoundPanningValue(bus.before.sound_panning) = 255
    /\ apu.wave_pattern[0] = WaveValue

RtcTailSize == 48

\* what mapper.has_battery() may answer: Mbc3 overrides the method and
\* returns its flag; RomOnly and Mbc1 (which keeps its flag in the unused
\* field _has_battery) leave the trait's default, false; Mbc2 and Mbc5
\* define can_save where the trait declares has_battery, so a build
\* answers either with the default or with the flag
HasBatteryAnswers(c) ==
    CASE c.kind = "Mbc3" -> {c.has_battery}
      [] c.kind \in {"Mbc2", "Mbc5"} -> {FALSE, c.has_battery}
      [] OTHER -> {FALSE}

\* Mbc3::set_rtc_data(...).is_ok(): without a clock it succeeds at once;
\* with one it reads ten u32 and one u64, which needs 48 bytes
SetRtcDataOk(c, tail_len) == ~c.has_rtc \/ tail_len >= RtcTailSize

\* the outcome of Cartridge::new for a save of save_len bytes
CartridgeNewResult(c, save_len, has_battery) ==
    IF ~has_battery THEN "SaveNotSupported"
    ELSE IF c.kind = "Mbc3"
         THEN IF /\ save_len = c.ram_len + RtcTailSize
                 /\ c.has_rtc
                 /\ SetRtcDataOk(c, save_len - c.ram_len)
              THEN "Ok"
              ELSE "InvalidRtcData"
         ELSE IF save_len # c.ram_len THEN "InvalidSave" ELSE "Ok"

\* every cartridge type Header::parse knows, with no RAM, 8 KiB and 32 KiB
SaveHeaders ==
    {[mapper_id |-> id, rom_code |-> 2, ram_code |-> rc] :
        id \in {0, 1, 2, 3, 5, 6, 15, 16, 17, 18, 19, 25, 26, 27, 28, 29, 30},
        rc \in {0, 2, 3}}

\* the save lengths tried for a cartridge: empty, the RAM size, one byte
\* more, and the RAM size with the clock data
SaveLengths(c) == {0, c.ram_len, c.ram_len + 1, c.ram_len + RtcTailSize}

\* Cartridge::new with Some(save): the save holds zero bytes and a
\* timestamp that is not in the past, so that an accepted save leaves RAM
\* and clock as a construction without save does
LoadSave ==
    /\ last_op.kind = "none"
    /\ \E n \in SaveLengths(cart) : \E answer \in HasBatteryAnswers(cart) :
          last_op' = Op(CartridgeNewResult(cart, n, answer), n)
    /\ UNCHANGED <<registers, enable_ime, cycles, execution_state,
                   interrupt_flags, interrupt_enable, ie_value, buttons,
                   timer, ppu, wram, dma, cart, apu, bus, panicked, ret,
                   nticks, log, writes, line_ticks, frame_ticks, frames,
                   frame_vblanks>>

NextSave == LoadSave

SpecSave ==
    /\ \E h \in SaveHeaders : ConstructedWith(h, "banked")
    /\ [][NextSave]_vars

\* a construction with a save has returned
SaveTried == last_op.kind # "none"

\* C20: with a save for a battery-backed cartridge, construction succeeds
\* when the save is as long as the RAM (512 bytes for MBC2), or as long as
\* the RAM and the 48 bytes of clock data on an MBC3 with a clock, and
\* fails with InvalidSave for every other length.
C20_SaveLengthDecides ==
    (SaveTried /\ cart.has_battery) =>
        IF \/ last_op.opcode = cart.ram_len
           \/ /\ cart.kind = "Mbc3"
              /\ cart.has_rtc
              /\ last_op.opcode = cart.ram_len + RtcTailSize
        THEN last_op.kind = "Ok"
        ELSE last_op.kind = "InvalidSave"

----------------------------------------------------------------------------
(* Restoring a serialized machine (Gameboy::reinit).  The running machine *)
(* is the one of the boot ROM accesses above; the machine restored is one *)
(* that was built with or without a boot ROM, wrote a byte to work RAM    *)
(* and, with a boot ROM, may have written FF50.  bus.before is the        *)
(* running machine before the call and writes holds the machine restored. *)

\* calls of reinit that fail are made while fewer than this have failed
MaxFailedRestores == 2

\* the bytes the restored machines wrote to work RAM
RestoreMarkers == {90, 165}

\* Gameboy::new as a machine: a ROM-only cartridge, with or without boot ROM
MachineNew(with_bootrom) ==
    [registers |-> IF with_bootrom THEN RegistersNew ELSE RegistersNewPostBootrom,
     enable_ime |-> FALSE, cycles |-> 0, execution_state |-> "Continue",
     interrupt_flags |-> {}, interrupt_enable |-> {}, ie_value |-> 0,
     buttons |-> ButtonsNew, timer |-> TimerNew,
     ppu |-> IF with_bootrom THEN PpuNew ELSE PpuNewPostBootrom,
     wram |-> <<>>, dma |-> DmaNone,
     cart |-> CartridgeNew(HeaderRomOnly, with_bootrom, "banked"),
     apu |-> ApuNew, panicked |-> FALSE, nticks |-> 0, op |-> Op("none", 0),
     log |-> LogNew, writes |-> <<>>]

\* the fields of Cartridge marked serde(skip) come back empty: rom an
\* empty vector, bootrom None
Deserialized(g) ==
    [g EXCEPT !.cart.image = "skipped", !.cart.bootrom = FALSE,
              !.cart.bootrom_written = <<>>]

\* what the host may hand to reinit
SavedMachines ==
    {Deserialized(MmuWriteByte(MmuWriteByte(MachineNew(b), WRAM_START, v),
                               65360, IF latch THEN 1 ELSE 0)) :
        b \in BOOLEAN, latch \in BOOLEAN, v \in RestoreMarkers}

\* a mutant of GameboyReinit: the images are not swapped back
GameboyReinitKeepsNothing(m, g) ==
    IF g.cart.bootrom_enabled /\ ~m.cart.bootrom
    THEN [result |-> "MissingBootrom", machine |-> m]
    ELSE [result |-> "Ok", machine |-> g]

\* Gameboy::reinit: rom and bootrom are swapped into the machine restored,
\* which then takes the place of the running one
GameboyReinit(m, g) ==
    IF g.cart.bootrom_enabled /\ ~m.cart.bootrom
    THEN [result |-> "MissingBootrom", machine |-> m]
    ELSE [result |-> "Ok",
          machine |-> [g EXCEPT !.cart.image = m.cart.image,
                                !.cart.bootrom = m.cart.bootrom,
                                !.cart.bootrom_written = m.cart.bootrom_written]]

\* opcode of last_op counts the calls that failed
ReinitStored(r, m, g) ==
    /\ Store(r.machine)
    /\ bus' = Bus("reinit", 0, 0, m)
    /\ writes' = <<g>>
    /\ last_op' = Op(r.result, IF r.result = "Ok" THEN last_op.opcode
                               ELSE last_op.opcode + 1)
    /\ UNCHANGED <<ret, nticks, line_ticks, frame_ticks, frames, frame_vblanks>>

Reinit(g) ==
    /\ last_op.opcode < MaxFailedRestores
    /\ ReinitStored(GameboyReinit(Machine, g), Machine, g)

NextRestore ==
    \/ BootIdle
    \/ \E address \in BootReads : BootRead(address)
    \/ \E w \in BootWrites : BootWrite(w[1], w[2])
    \/ \E g \in SavedMachines : Reinit(g)

SpecRestore ==
    /\ ConstructedWith(HeaderRomOnly, "banked")
    /\ [][NextRestore]_vars

\* the last thing done was a call of reinit
Reinited == bus.kind = "reinit"

\* the machine handed to the last reinit
Restored == writes[1]

\* C21: reinit fails with MissingBootrom exactly when the machine restored
\* has the boot ROM enabled and the running machine has no boot ROM, and
\* then the running machine is what it was; otherwise the running machine
\* becomes the machine restored, with the ROM and the boot ROM it had.
C21_ReinitKeepsImages ==
    Reinited =>
        IF Restored.cart.bootrom_enabled /\ ~bus.before.cart.bootrom
        THEN /\ last_op.kind = "MissingBootrom"
             /\ Machine = bus.before
        ELSE /\ last_op.kind = "Ok"
             /\ cart.image = bus.before.cart.image
             /\ cart.bootrom = bus.before.cart.bootrom
             /\ cart.bootrom_written = bus.before.cart.bootrom_written
             /\ [Machine EXCEPT !.cart = 0] = [Restored EXCEPT !.cart = 0]
             /\ [cart EXCEPT !.image = 0, !.bootrom = 0, !.bootrom_written = 0]
                   = [Restored.cart EXCEPT !.image = 0, !.bootrom = 0,
                                           !.bootrom_written = 0]

\* C21 witness: a restore succeeded on a machine without boot ROM that had
\* refused one before, and brought another work RAM
C21_Witness ==
    /\ Reinited
    /\ last_op = Op("Ok", 1)
    /\ ~cart.bootrom
    /\ cart.image = "banked"
    /\ wram # bus.before.wram
    /\ bus.before.wram # <<>>

----------------------------------------------------------------------------
(* The arithmetic and the rotates of the CPU on register A               *)
(* (cpu/instructions.rs, cpu/registers.rs): add_a_generic as ADD A,u8 and *)
(* ADC A,u8 call it, the CB-prefixed rotates and shifts with A as operand *)
(* (opcodes CB x7 and CB xF) and RLCA, RRCA, RLA, RRA.  bus keeps the     *)
(* operation, the operand and the registers before it.                    *)

\* the bit of a flag in F
FlagBit(flag) ==
    CASE flag = "Z" -> 7 [] flag = "N" -> 6 [] flag = "H" -> 5 [] flag = "C" -> 4

\* Flags::is_set
FlagsIsSet(f, flag) == Bit(f, FlagBit(flag)) = 1

\* Flags::set
FlagsSet(f, flag, set) ==
    IF set THEN OrByte(f, Pow2(FlagBit(flag)))
    ELSE AndMask(f, (0..7) \ {FlagBit(flag)})

\* u8::from(with_carry && self.carry())
CarryOf(f, with_carry) == IF with_carry /\ FlagsIsSet(f, "C") THEN 1 ELSE 0

\* Flags::update_half_carry_u8 and Flags::update_carry_u8 with FlagOp::Carry
UpdateHalfCarryU8(f, lhs, rhs, with_carry) ==
    FlagsSet(f, "H", (lhs % 16) + (rhs % 16) + CarryOf(f, with_carry) > 15)

UpdateCarryU8(f, lhs, rhs, with_carry) ==
    FlagsSet(f, "C", lhs + rhs + CarryOf(f, with_carry) > 255)

\* Flags::update_zero
UpdateZero(f, value) == FlagsSet(f, "Z", value = 0)

\* the end of add_a_generic, f being the flags after update_carry_u8: the
\* carry added is read from f
AddAStore(r, f, value) == [r EXCEPT !.a = value, !.f = UpdateZero(f, value)]

AddASum(r, f, added, with_carry) ==
    AddAStore(r, f, (r.a + added + CarryOf(f, with_carry)) % 256)

\* Cpu::add_a_generic
AddAGeneric(r, added, with_carry) ==
    AddASum(r,
            UpdateCarryU8(UpdateHalfCarryU8(FlagsSet(r.f, "N", FALSE),
                                            r.a, added, with_carry),
                          r.a, added, with_carry),
            added, with_carry)

\* u8::rotate_left(1), u8::rotate_right(1), << 1 and >> 1
RotateLeft(v) == ((v * 2) % 256) + (v \div 128)
RotateRight(v) == (v \div 2) + 128 * (v % 2)
ShiftLeft(v) == (v * 2) % 256
ShiftRight(v) == v \div 2

\* Flags::clear followed by set_carry
OnlyCarry(set) == FlagsSet(0, "C", set)

\* Cpu::rlca, rrca, rla, rra
Rlca(r) == [r EXCEPT !.a = RotateLeft(r.a), !.f = OnlyCarry(r.a \div 128 # 0)]
Rrca(r) == [r EXCEPT !.a = RotateRight(r.a), !.f = OnlyCarry(r.a % 2 # 0)]
Rla(r) ==
    [r EXCEPT !.a = OrByte(ShiftLeft(r.a), CarryOf(r.f, TRUE)),
              !.f = OnlyCarry(r.a \div 128 # 0)]
Rra(r) ==
    [r EXCEPT !.a = OrByte(ShiftRight(r.a), 128 * CarryOf(r.f, TRUE)),
              !.f = OnlyCarry(r.a % 2 # 0)]

\* the end of rl, rr, sla, sra and srl: clear, set_carry, update_zero, set_r
ShiftStore(r, carry, value) ==
    [r EXCEPT !.a = value, !.f = UpdateZero(OnlyCarry(carry), value)]

\* Cpu::rlc and Cpu::rrc with A as operand: set_carry and set_r only
Rlc(r) == [r EXCEPT !.a = RotateLeft(r.a), !.f = FlagsSet(r.f, "C", r.a \div 128 # 0)]
Rrc(r) == [r EXCEPT !.a = RotateRight(r.a), !.f = FlagsSet(r.f, "C", r.a % 2 # 0)]

\* Cpu::rl, rr, sla, sra, srl with A as operand
Rl(r) == ShiftStore(r, r.a \div 128 # 0, OrByte(ShiftLeft(r.a), CarryOf(r.f, TRUE)))
Rr(r) == ShiftStore(r, r.a % 2 # 0, OrByte(ShiftRight(r.a), 128 * CarryOf(r.f, TRUE)))
Sla(r) == ShiftStore(r, r.a \div 128 # 0, ShiftLeft(r.a))
Sra(r) == ShiftStore(r, r.a % 2 # 0, AndByte(ShiftRight(r.a), AndByte(r.a, 128)))
Srl(r) == ShiftStore(r, r.a % 2 # 0, ShiftRight(r.a))

CbRotates == {"rlc", "rrc", "rl", "rr", "sla", "sra", "srl"}
ARotates == {"rlca", "rrca", "rla", "rra"}

Rotated(r, kind) ==
    CASE kind = "rlc" -> Rlc(r) [] kind = "rrc" -> Rrc(r)
      [] kind = "rl" -> Rl(r) [] kind = "rr" -> Rr(r)
      [] kind = "sla" -> Sla(r) [] kind = "sra" -> Sra(r)
      [] kind = "srl" -> Srl(r)
      [] kind = "rlca" -> Rlca(r) [] kind = "rrca" -> Rrca(r)
      [] kind = "rla" -> Rla(r) [] kind = "rra" -> Rra(r)

\* the flag bytes the operations find: no flag, C alone, every flag
AluFlags == {0, 16, 240}

AluStored(r, kind, operand) ==
    /\ registers' = r
    /\ bus' = Bus(kind, 0, operand, registers)
    /\ last_op' = Op("alu", 0)
    /\ UNCHANGED <<enable_ime, cycles, execution_state, interrupt_flags,
                   interrupt_enable, ie_value, buttons, timer, ppu, wram, dma,
                   cart, apu, panicked, ret, nticks, log, writes, line_ticks,
                   frame_ticks, frames, frame_vblanks>>

AluAdd(added, with_carry) ==
    /\ bus = BusNone
    /\ AluStored(AddAGeneric(registers, added, with_carry),
                 IF with_carry THEN "adc" ELSE "add", added)

AluRotate(kind) ==
    /\ bus = BusNone
    /\ AluStored(Rotated(registers, kind), kind, registers.a)

NextAlu ==
    \/ \E added \in 0..255, with_carry \in BOOLEAN : AluAdd(added, with_carry)
    \/ \E kind \in CbRotates \cup ARotates : AluRotate(kind)

\* every value of A with each of the flag bytes
SpecAlu ==
    /\ \E a \in 0..255, f \in AluFlags :
          /\ registers = [RegistersNew EXCEPT !.a = a, !.f = f]
          /\ ppu = PpuNew
          /\ cart = CartridgeNew(HeaderRomOnly, TRUE, "any")
          /\ wram = <<>> /\ dma = DmaNone /\ apu = ApuNew /\ bus = BusNone
          /\ enable_ime = FALSE /\ cycles = 0 /\ execution_state = "Continue"
          /\ interrupt_flags = {} /\ interrupt_enable = {} /\ ie_value = 0
          /\ buttons = ButtonsNew /\ timer = TimerNew /\ panicked = FALSE
          /\ ret = 0 /\ nticks = 0 /\ last_op = Op("none", 0) /\ log = LogNew
          /\ writes = <<>> /\ line_ticks = 0 /\ frame_ticks = 0 /\ frames = 0
          /\ frame_vblanks = 0
    /\ [][NextAlu]_vars

\* the carry that went into the last ADD or ADC
CarryIn == IF bus.kind = "adc" /\ FlagsIsSet(bus.before.f, "C") THEN 1 ELSE 0

\* C22: ADD and ADC leave A = (a+b+c) mod 256, Z = (A = 0), N = 0,
\* H = (low nibbles and c sum above 15) and C = (a+b+c above 255), c being
\* 0 for ADD and the carry flag before the instruction for ADC.
C22_AddAdcFlags ==
    bus.kind \in {"add", "adc"} =>
        /\ registers.a = (bus.before.a + bus.value + CarryIn) % 256
        /\ FlagsIsSet(registers.f, "Z") <=> registers.a = 0
        /\ ~FlagsIsSet(registers.f, "N")
        /\ FlagsIsSet(registers.f, "H")
              <=> (bus.before.a % 16) + (bus.value % 16) + CarryIn > 15
        /\ FlagsIsSet(registers.f, "C")
              <=> bus.before.a + bus.value + CarryIn > 255

\* the bit the last rotate or shift moved out of its operand
ShiftedOut ==
    IF bus.kind \in {"rlc", "rl", "sla", "rlca", "rla"}
    THEN bus.value \div 128 ELSE bus.value % 2

\* C23: after a CB-prefixed rotate or shift C is the bit shifted out and
\* Z is set exactly when the result is 0; RLCA, RRCA, RLA and RRA leave Z
\* clear.
C23_RotateFlags ==
    /\ bus.kind \in CbRotates =>
          /\ FlagsIsSet(registers.f, "C") <=> ShiftedOut = 1
          /\ FlagsIsSet(registers.f, "Z") <=> registers.a = 0
    /\ bus.kind \in ARotates => ~FlagsIsSet(registers.f, "Z")

----------------------------------------------------------------------------
(* The cost of an interrupt dispatch, on the instruction-stepped machine  *)
(* of Spec.                                                                *)

\* C24: a step that dispatches an interrupt issues 5 bus ticks and returns
\* 20 master cycles.
C24_DispatchCost ==
    last_op.kind = "dispatch" => (nticks = 5 /\ ret = 20)

----------------------------------------------------------------------------
(* The course of an OAM DMA transfer, on the machine of SpecDma: nticks   *)
(* counts the system ticks since the write of FF46.                       *)

\* the bytes the copier has transferred after n ticks: none on the tick
\* that takes the request, then one per tick
DmaBytesDue(n) == IF n = 0 THEN 0 ELSE IF n > OAM_SIZE THEN OAM_SIZE ELSE n - 1

\* C25: from the tick after the write of FF46 the copier is busy and moves
\* one byte per tick, in increasing order of the offset, each byte of the
\* source to the same offset of OAM; once the byte at offset 159 is
\* written the copier is idle and stays idle.
C25_DmaByteByByte ==
    last_op.kind = "dma" =>
        /\ (nticks >= 1 /\ nticks <= OAM_SIZE) =>
               (dma.active /\ dma.offset = nticks - 1)
        /\ nticks > OAM_SIZE => ~dma.active
        /\ \A off \in 0..(DmaBytesDue(nticks) - 1) : ppu.oam[off] = off

----------------------------------------------------------------------------
(* The DIV-APU counter: the program switches the APU on and lets the      *)
(* machine run, one CPU cycle per step (Cpu::tick), writing DIV now and   *)
(* then (Cpu::write_byte).  bus.before is the APU before the step,        *)
(* bus.value tells whether the step before was a write of DIV that found  *)
(* bit 4 of DIV set, and writes lists the writes of DIV.                  *)

\* the machine is run while the cycle counter is below this bound: long
\* enough for bit 4 of DIV (bit 12 of the divider) to rise and fall
MaxDivApuCycles == 8400

\* DIV is written at most this many times
MaxDivWrites == 2

\* the values of the divider at which the program writes DIV: with bit 4
\* of the divider set and clear, while bit 4 of DIV is clear and set
DivWritePoints == {16, 36, 4112, 4128}

\* bit 4 of the DIV register (FF04), the high byte of the divider
DivBit4(t) == Bit(t.divider \div 256, 4)

DivApuStored(m, kind, found_set, ws) ==
    /\ Store(m)
    /\ bus' = Bus(kind, 0, IF last_op.kind = "div" THEN last_op.opcode ELSE 0, apu)
    /\ last_op' = Op(kind, found_set)
    /\ writes' = ws
    /\ UNCHANGED <<ret, nticks, line_ticks, frame_ticks, frames, frame_vblanks>>

\* the write of 0x80 to FF26
DivApuOn ==
    /\ last_op.kind = "none"
    /\ DivApuStored(MmuWriteByte(CpuTick(Machine), ApuPowerAddress, 128), "on", 0, writes)

DivApuTick ==
    /\ last_op.kind # "none"
    /\ cycles < MaxDivApuCycles
    /\ DivApuStored(CpuTick(Machine), "tick", 0, writes)

\* a write of DIV; the tick of the access comes first
DivApuWrite ==
    /\ last_op.kind # "none"
    /\ cycles < MaxDivApuCycles
    /\ Len(writes) < MaxDivWrites
    /\ timer.divider + 4 \in DivWritePoints
    /\ DivApuStored(MmuWriteByte(CpuTick(Machine), 65284, 0), "div",
                    DivBit4(CpuTick(Machine).timer), Append(writes, <<65284, 0>>))

NextDivApu ==
    \/ DivApuOn
    \/ DivApuTick
    \/ DivApuWrite

SpecDivApu == Constructed /\ [][NextDivApu]_vars

\* the tick of the last step stepped the DIV-APU counter
DivApuStepped == apu.div = (bus.before.div + 1) % 256

\* the tick of the last step took bit 4 of DIV from 1 to 0
DivBit4Fell == DivBit4(log.timer_before) = 1 /\ DivBit4(log.timer_after) = 0

\* C26: the DIV-APU counter is stepped on a tick exactly when bit 4 of DIV
\* falls on that tick or fell by the write of DIV that came before it, and
\* is left alone on every other tick.
C26_DivApuOnFallingEdge ==
    bus.kind \in {"tick", "div"} =>
        /\ DivApuStepped <=> (DivBit4Fell \/ bus.value = 1)
        /\ ~DivApuStepped => apu.div = bus.before.div

----------------------------------------------------------------------------
(* The phases of the DIV-APU counter: the program switches the APU on,    *)
(* writes the sweep, length, envelope and control registers of the four   *)
(* channels and triggers them; then Apu::inc_div is called step by step.  *)
(* bus.before is the APU before the last call.                            *)

\* inc_div is called while the counter is below this bound
MaxPhaseSteps == 17

\* NR10: pace 1 increasing, pace 1 decreasing, pace 2 increasing (slope 1)
SweepSetups == {17, 25, 33}

\* NR12, NR22, NR42: from 15 down with pace 1, from 0 up with pace 1, from
\* 15 down with pace 2
EnvelopeSetups == {241, 9, 242}

\* NR11, NR21, NR41: a length timer of 1 and of 5
LengthSetups == {63, 59}

\* NR14, NR24, NR34, NR44: trigger with and without length enable
ControlSetups == {196, 132}

\* the writes of one setup
SetupWrites(nr10, nrx1, nrx2, nrx4) ==
    <<<<65318, 128>>,
      <<65296, nr10>>, <<65297, nrx1>>, <<65298, nrx2>>, <<65299, 0>>, <<65300, nrx4>>,
      <<65302, nrx1>>, <<65303, nrx2>>, <<65304, 0>>, <<65305, nrx4>>,
      <<65306, 128>>, <<65307, 254>>, <<65310, nrx4>>,
      <<65312, nrx1>>, <<65313, nrx2>>, <<65315, nrx4>>>>

\* Apu::write for each write of ws in turn
RECURSIVE ApuWriteAll(_, _)
ApuWriteAll(a, ws) ==
    IF ws = <<>> THEN a
    ELSE ApuWriteAll(ApuWrite(a, ws[1][1], ws[1][2]), Tail(ws))

PhaseStored(a, kind) ==
    /\ apu' = a
    /\ bus' = Bus(kind, 0, 0, apu)
    /\ last_op' = Op(kind, 0)
    /\ UNCHANGED <<registers, enable_ime, cycles, execution_state,
                   interrupt_flags, interrupt_enable, ie_value, buttons, timer,
                   ppu, wram, dma, cart, panicked, ret, nticks, log, writes,
                   line_ticks, frame_ticks, frames, frame_vblanks>>

\* the register writes and the Apu::tick that takes the triggers
PhaseSetup(nr10, nrx1, nrx2, nrx4) ==
    /\ last_op.kind = "none"
    /\ PhaseStored(ApuTick(ApuWriteAll(apu, SetupWrites(nr10, nrx1, nrx2, nrx4))),
                   "setup")

PhaseStep ==
    /\ last_op.kind # "none"
    /\ apu.div < MaxPhaseSteps
    /\ PhaseStored(ApuIncDiv(apu), "inc_div")

NextPhase ==
    \/ \E nr10 \in SweepSetups, nrx1 \in LengthSetups, nrx2 \in EnvelopeSetups,
          nrx4 \in ControlSetups : PhaseSetup(nr10, nrx1, nrx2, nrx4)
    \/ PhaseStep

SpecPhase == Constructed /\ [][NextPhase]_vars

\* the phase of the last call of inc_div
Phase == bus.before.div % 8

\* what the last call advanced
LengthAdvanced == \E ch \in 1..4 : ChLenTimer(apu, ch) # ChLenTimer(bus.before, ch)
SweepAdvanced == apu.ch1_wavelen # bus.before.ch1_wavelen
EnvelopeAdvanced ==
    \/ apu.ch1_volume # bus.before.ch1_volume
    \/ apu.ch2_volume # bus.before.ch2_volume
    \/ apu.ch4_volume # bus.before.ch4_volume

\* C27: a step of the DIV-APU counter advances the length counters on the
\* phases 0, 2, 4 and 6 only, the frequency sweep of channel 1 on the
\* phases 2 and 6 only, and the envelopes of channels 1, 2 and 4 on phase
\* 7 only.
C27_PhaseTable ==
    bus.kind = "inc_div" =>
        /\ LengthAdvanced => Phase \in {0, 2, 4, 6}
        /\ SweepAdvanced => Phase \in {2, 6}
        /\ EnvelopeAdvanced => Phase = 7

----------------------------------------------------------------------------
(* The modes of a visible line.  The program switches the LCD off, fills  *)
(* OAM, sets SCX and the window position, and switches the LCD on with or *)
(* without the window; from then on the PPU is ticked, the LCD staying    *)
(* on.  line_ticks counts the ticks since the line began.                 *)

\* the PPU is ticked until LY reaches this line
MaxLines == 2

\* OAM layouts: no sprite; ten sprites on the lines 0-7, all at x = 8;
\* twelve sprites on the lines 0-7 at x = 8, 16, ..., 96; two sprites on
\* the lines 1-8 at x = 8 and 16
SpriteLayouts == {"none", "stack", "row", "pair"}

OamByte(layout, i) ==
    CASE layout = "none" -> 0
      [] layout = "stack" ->
           IF i >= 40 THEN 0
           ELSE IF i % 4 = 0 THEN 16 ELSE IF i % 4 = 1 THEN 8 ELSE 0
      [] layout = "row" ->
           IF i >= 48 THEN 0
           ELSE IF i % 4 = 0 THEN 16 ELSE IF i % 4 = 1 THEN 8 * ((i \div 4) + 1) ELSE 0
      [] layout = "pair" ->
           IF i >= 8 THEN 0
           ELSE IF i % 4 = 0 THEN 17 ELSE IF i % 4 = 1 THEN 8 * ((i \div 4) + 1) ELSE 0

\* Ppu::write_oam for each of the 160 bytes of a layout: the mode is the
\* same for all of them, so that all are stored or all are dropped
OamLoaded(p, layout) ==
    IF p.mode \in {HBlankMode, VBlankMode}
    THEN [p EXCEPT !.oam = [i \in 0..(OAM_SIZE - 1) |-> OamByte(layout, i)]]
    ELSE p

\* the bytes written to SCX and to LCDC (LCD, tile data, sprites and
\* background on; the same with the window)
ScrollValues == {0, 7}
LcdcOnValues == {147, 179}

\* the PPU once the LCD is off: the write of LCDC and a tick
LcdOff(p) == PpuTick(PpuWriteRegisters(p, 65344, 16))

\* the writes made while the LCD is off, then the write that switches it on
LineSetupPpu(p, layout, scx, lcdc) ==
    PpuWriteRegisters(
        PpuWriteRegisters(
            PpuWriteRegisters(
                PpuWriteRegisters(OamLoaded(p, layout), 65347, scx),
                65355, 15),
            65354, 0),
        65344, lcdc)

LineSetup(layout, scx, lcdc) ==
    /\ ppu \in {PpuNew, PpuNewPostBootrom}
    /\ PpuObserve(LcdOff(ppu), LineSetupPpu(LcdOff(ppu).ppu, layout, scx, lcdc))

LineTick ==
    /\ ppu \notin {PpuNew, PpuNewPostBootrom}
    /\ ppu.line_y < MaxLines
    /\ PpuObserve(PpuTick(ppu), PpuTick(ppu).ppu)

NextLine ==
    \/ \E layout \in SpriteLayouts, scx \in ScrollValues, lcdc \in LcdcOnValues :
          LineSetup(layout, scx, lcdc)
    \/ LineTick

SpecLine == Constructed /\ [][NextLine]_vars

\* the ticks a line spends in OAM search: 40 sprites, two per tick
OamSearchTicks == OAM_SIZE \div 8

\* C28: with the LCD on, a visible line is in mode 2 for its first 20
\* ticks, then in mode 3, then in mode 0 until its 114 ticks are over;
\* mode 0 is never left within the line and the line ends in mode 0.
C28_ModeOrder ==
    [][(LcdEnable(ppu) /\ ppu.line_y <= LAST_VISIBLE_LINE) =>
          /\ line_ticks < OamSearchTicks => ppu.mode = OamSearchMode
          /\ line_ticks = OamSearchTicks => ppu.mode = PixelTransferMode
          /\ line_ticks > OamSearchTicks =>
                ppu.mode \in {PixelTransferMode, HBlankMode}
          /\ (ppu.mode = HBlankMode /\ ppu'.line_y = ppu.line_y)
                => ppu'.mode = HBlankMode
          /\ ppu'.line_y # ppu.line_y =>
                (ppu.mode = HBlankMode /\ line_ticks + 1 = CYCLES_PER_LINE)]_vars

\* C28 witness: line 1 began after a line 0 that fetched ten sprites
C28_Witness ==
    /\ ppu.line_y = 1
    /\ line_ticks = 0
    /\ ppu.mode = OamSearchMode
    /\ ppu.oam[1] = 8
    /\ ppu.oam[5] = 8

----------------------------------------------------------------------------
(* The LCD-Stat interrupt.  The program writes STAT and LYC, switches the *)
(* LCD on and lets the PPU tick through the visible lines into VBlank.    *)
(* bus.before is the PPU before the last tick and bus.value tells whether *)
(* that tick raised LcdStat.                                              *)

\* the PPU is ticked until LY reaches this line
MaxStatLine == 145

\* the bytes written to STAT: no enable bit, each of the four alone, all
StatValues == {0, 8, 16, 32, 64, 120}

\* the byte written to LYC
StatLyc == 1

StatStored(p, kind, value) ==
    /\ ppu' = p
    /\ bus' = Bus(kind, 0, value, ppu)
    /\ UNCHANGED <<registers, enable_ime, cycles, execution_state,
                   interrupt_flags, interrupt_enable, ie_value, buttons, timer,
                   wram, dma, cart, apu, panicked, ret, nticks, last_op, log,
                   writes, line_ticks, frame_ticks, frames, frame_vblanks>>

\* the writes of STAT, LYC and LCDC
StatSetup(value) ==
    /\ bus = BusNone
    /\ StatStored(PpuWriteRegisters(
                      PpuWriteRegisters(PpuWriteRegisters(ppu, 65345, value),
                                        65349, StatLyc),
                      65344, 145),
                  "setup", 0)

StatTick ==
    /\ bus # BusNone
    /\ ppu.line_y < MaxStatLine
    /\ StatStored(PpuTick(ppu).ppu, "tick",
                  IF LcdStat \in PpuTick(ppu).interrupts THEN 1 ELSE 0)

\* a read of STAT between two ticks: bus.value is the byte read
StatRead ==
    /\ bus.kind \in {"setup", "tick"}
    /\ StatStored(ppu, "read", PpuReadRegisters(ppu, 65345))

NextStat ==
    \/ \E value \in StatValues : StatSetup(value)
    \/ StatTick
    \/ StatRead

SpecStat == Constructed /\ [][NextStat]_vars

\* the last tick took the PPU into mode m
EnteredMode(m) == bus.before.mode # m /\ ppu.mode = m

\* the last tick made LY equal to LYC
LyBecameLyc == bus.before.line_y # ppu.line_y /\ ppu.line_y = ppu.line_y_compare

\* C29: a tick raises LcdStat exactly when it takes the PPU into mode 2
\* with bit 5 of STAT set, into mode 1 with bit 4 set, into mode 0 with bit
\* 3 set, or makes LY equal to LYC with bit 6 set.
C29_StatInterrupt ==
    bus.kind = "tick" =>
        (bus.value = 1 <=>
            \/ OamInterruptEnabled(ppu) /\ EnteredMode(OamSearchMode)
            \/ VblankInterruptEnabled(ppu) /\ EnteredMode(VBlankMode)
            \/ HblankInterruptEnabled(ppu) /\ EnteredMode(HBlankMode)
            \/ CoincidenceInterruptEnabled(ppu) /\ LyBecameLyc)

\* C30: a read of STAT returns in bit 2 whether LY equals LYC at that
\* moment and in bits 1-0 the mode the PPU is in.
C30_StatRead ==
    bus.kind = "read" =>
        /\ Bit(bus.value, 2) = (IF ppu.line_y = ppu.line_y_compare THEN 1 ELSE 0)
        /\ bus.value % 4 = ppu.mode

----------------------------------------------------------------------------
(* The LCD switched off and on again within a frame.  The lines are set   *)
(* up and ticked as above; once, at any tick, the program clears bit 7 of *)
(* LCDC, lets a tick pass and writes the old LCDC back.  nticks counts    *)
(* the times it did so and line_ticks the ticks since the last enable or  *)
(* line change.                                                           *)

\* the times the LCD is switched off and on again
MaxToggles == 1

\* the write that clears bit 7 of LCDC, a tick, the write of the old LCDC
ToggledPpu(p) ==
    PpuWriteRegisters(PpuTick(PpuWriteRegisters(p, 65344, p.lcdc - 128)).ppu,
                      65344, p.lcdc)

LineToggle ==
    /\ ppu \notin {PpuNew, PpuNewPostBootrom}
    /\ LcdEnable(ppu)
    /\ ppu.line_y < MaxLines
    /\ nticks < MaxToggles
    /\ ppu' = ToggledPpu(ppu)
    /\ nticks' = nticks + 1
    /\ line_ticks' = 0
    /\ frame_ticks' = 0
    /\ frame_vblanks' = 0
    /\ log' = [log EXCEPT !.vblank_raised = FALSE, !.line_before = ppu.line_y,
                          !.lcd_on = FALSE]
    /\ UNCHANGED <<registers, enable_ime, cycles, execution_state,
                   interrupt_flags, interrupt_enable, ie_value, buttons, timer,
                   wram, dma, cart, apu, bus, panicked, ret, last_op, writes,
                   frames>>

NextToggle ==
    \/ \E layout \in SpriteLayouts, lcdc \in LcdcOnValues :
          LineSetup(layout, 0, lcdc)
    \/ LineTick
    \/ LineToggle

SpecToggle == Constructed /\ [][NextToggle]_vars

\* the sprites of OAM from entry i on that are on line LY, in OAM order,
\* appended to found until it holds ten
RECURSIVE EligibleFrom(_, _, _)
EligibleFrom(p, i, found) ==
    IF i = OAM_SIZE \div 4 \/ Len(found) = MAX_VISIBLE_SPRITES THEN found
    ELSE EligibleFrom(p, i + 1,
             IF /\ p.oam[4 * i + 1] # 0
                /\ p.oam[4 * i] <= p.line_y + 16
                /\ p.line_y + 16 < p.oam[4 * i] + ObjHeight(p)
             THEN Append(found, [x |-> p.oam[4 * i + 1], y |-> p.oam[4 * i]])
             ELSE found)

\* C31: when OAM search ends on line LY the list of visible sprites holds
\* exactly the first (at most ten) OAM entries with x # 0 and
\* y <= LY + 16 < y + height, in OAM order, and nothing of an earlier line.
C31_VisibleSprites ==
    [][(ppu.mode = OamSearchMode /\ ppu'.mode = PixelTransferMode) =>
          ppu'.visible_objs = EligibleFrom(ppu', 0, <<>>)]_vars

\* C40: after the LCD was switched off and on again, line 0 is in mode 2
\* for its first 20 ticks, leaves it at the 20th, and LY first increments
\* 114 ticks after the re-enable.
C40_RestartAfterToggle ==
    [][(nticks = MaxToggles /\ ppu.line_y = 0 /\ LcdEnable(ppu)) =>
          /\ line_ticks < OamSearchTicks => ppu.mode = OamSearchMode
          /\ line_ticks = OamSearchTicks => ppu.mode = PixelTransferMode
          /\ ppu'.line_y # ppu.line_y => line_ticks + 1 = CYCLES_PER_LINE]_vars

----------------------------------------------------------------------------
(* The DACs and the status bits of FF26.  The program switches the APU on *)
(* and off, and writes the volume/envelope byte (FF1A for channel 3), the *)
(* length and the control byte of one channel; Apu::tick and Apu::inc_div *)
(* run in between.  last_op.opcode is the channel the program works on,   *)
(* nticks the number of calls of tick and inc_div,                        *)
(* bus.before the power bit and the status bits before the last call.     *)

\* tick and inc_div are called at most this many times
MaxDacSteps == 4

\* the registers of a channel: the byte that holds the DAC bits, the
\* length, the control byte
DacAddress(ch) ==
    CASE ch = 1 -> 65298 [] ch = 2 -> 65303 [] ch = 3 -> 65306 [] ch = 4 -> 65313
LengthAddress(ch) ==
    CASE ch = 1 -> 65297 [] ch = 2 -> 65302 [] ch = 3 -> 65307 [] ch = 4 -> 65312
ControlAddress(ch) ==
    CASE ch = 1 -> 65300 [] ch = 2 -> 65305 [] ch = 3 -> 65310 [] ch = 4 -> 65315

\* the bytes written: to the DAC register (off, off with a pace, on by the
\* direction bit, on by bit 7 or the volume), to the length register (a
\* timer of 1), to the control byte (trigger with and without length
\* enable, neither)
DacValues == {0, 7, 8, 128, 240}
DacLength(ch) == IF ch = 3 THEN 255 ELSE 63
DacControls == {128, 192, 0}

\* whether the DAC of channel ch is enabled
ChDacEnabled(a, ch) ==
    CASE ch = 1 -> DacEnabled(a.ch1_vol_env)
      [] ch = 2 -> DacEnabled(a.ch2_vol_env)
      [] ch = 3 -> a.ch3_dac_enable
      [] ch = 4 -> DacEnabled(a.ch4_vol_env)

DacStored(a, kind, address, value, ch, n) ==
    /\ apu' = a
    /\ bus' = Bus(kind, address, value,
                  [enable_apu |-> apu.enable_apu, channels |-> apu.channels])
    /\ last_op' = Op(kind, ch)
    /\ nticks' = n
    /\ UNCHANGED <<registers, enable_ime, cycles, execution_state,
                   interrupt_flags, interrupt_enable, ie_value, buttons, timer,
                   ppu, wram, dma, cart, panicked, ret, log, writes,
                   line_ticks, frame_ticks, frames, frame_vblanks>>

\* the program works on channel ch from its first write on
WorksOn(ch) == last_op.kind = "none" \/ last_op.opcode = ch

\* Apu::write of a register of channel ch
DacWrite(ch, address, value) ==
    /\ WorksOn(ch)
    /\ DacStored(ApuWrite(apu, address, value), "write", address, value, ch, nticks)

\* Apu::write of FF26
DacPower(value) ==
    /\ last_op.kind # "none"
    /\ DacStored(ApuWrite(apu, 65318, value), "write", 65318, value,
                 last_op.opcode, nticks)

\* Apu::tick
DacTick ==
    /\ last_op.kind # "none"
    /\ nticks < MaxDacSteps
    /\ DacStored(ApuTick(apu), "tick", 0, 0, last_op.opcode, nticks + 1)

\* Apu::inc_div
DacIncDiv ==
    /\ last_op.kind # "none"
    /\ apu.enable_apu
    /\ nticks < MaxDacSteps
    /\ DacStored(ApuIncDiv(apu), "inc_div", 0, 0, last_op.opcode, nticks + 1)

NextDac ==
    \/ \E ch \in 1..4, value \in DacValues : DacWrite(ch, DacAddress(ch), value)
    \/ \E ch \in 1..4 : DacWrite(ch, LengthAddress(ch), DacLength(ch))
    \/ \E ch \in 1..4, value \in DacControls : DacWrite(ch, ControlAddress(ch), value)
    \/ \E value \in PowerValues : DacPower(value)
    \/ DacTick
    \/ DacIncDiv

SpecDac == Constructed /\ [][NextDac]_vars

\* the last call was a write to the DAC register of channel ch, taken by
\* the APU, which left the DAC disabled
DacSwitchedOff(ch) ==
    /\ bus.kind = "write"
    /\ bus.address = DacAddress(ch)
    /\ bus.before.enable_apu
    /\ ~ChDacEnabled(apu, ch)

\* C32: the status bit of a channel in FF26 is set only if the DAC of the
\* channel is enabled, and a write that disables the DAC leaves the status
\* bit of its channel clear.
C32_StatusNeedsDac ==
    \A ch \in 1..4 :
        /\ Bit(ApuRead(apu, 65318), ch - 1) = 1 => ChDacEnabled(apu, ch)
        /\ DacSwitchedOff(ch) => Bit(ApuRead(apu, 65318), ch - 1) = 0

\* C32 witness: a write of NR12 disabled the DAC of channel 1 while its
\* status bit was set, and the bit is clear
C32_Witness ==
    /\ DacSwitchedOff(1)
    /\ 1 \in bus.before.channels
    /\ Bit(ApuRead(apu, 65318), 0) = 0

----------------------------------------------------------------------------
(* The clock of an MBC3 cartridge.  The program enables the clock, writes *)
(* its five registers and latches them; then the cartridge is ticked, the *)
(* program latches again, selects a register and reads it.  The counter   *)
(* of cycles within the second starts at 0 or two ticks before the end of *)
(* a second.  bus.before is the cartridge before the last call, nticks    *)
(* the number of ticks.                                                   *)

\* the cartridge is ticked at most this many times
MaxRtcTicks == 4

\* MBC3 with clock, RAM and battery: 8 ROM banks, 32 KiB of RAM
HeaderMbc3Rtc == [mapper_id |-> 16, rom_code |-> 2, ram_code |-> 3]

\* Mbc3.cycles at the start: as constructed, and as left by the ticks of a
\* second but two
RtcPhases == {0, CYCLES_PER_SECOND - 8}

\* the bytes written to the registers 08 to 0C
RtcSeconds == {58, 59}
RtcMinutes == {0, 59}
RtcHours == {0, 23}
RtcDaysLow == {0, 255}
RtcDaysHigh == {0, 1, 65}

\* the writes of one setup: enable, each register selected and written, the
\* latch
RtcSetupWrites(s, m, h, dl, dh) ==
    <<<<4096, 10>>,
      <<16384, 8>>, <<40960, s>>, <<16384, 9>>, <<40960, m>>,
      <<16384, 10>>, <<40960, h>>, <<16384, 11>>, <<40960, dl>>,
      <<16384, 12>>, <<40960, dh>>,
      <<24576, 0>>, <<24576, 1>>>>

\* Cartridge::write_rom or Cartridge::write_ram by the address (Mmu::write_byte)
CartridgeWrite(c, address, value) ==
    IF address < 32768 THEN CartridgeWriteRom(c, address, value)
    ELSE CartridgeWriteRam(c, address, value)

RECURSIVE CartridgeWriteAll(_, _)
CartridgeWriteAll(c, ws) ==
    IF ws = <<>> THEN c
    ELSE CartridgeWriteAll(CartridgeWrite(c, ws[1][1], ws[1][2]), Tail(ws))

RtcStored(c, kind, address, value, n) ==
    /\ cart' = c
    /\ bus' = Bus(kind, address, value, cart)
    /\ last_op' = Op(kind, 0)
    /\ nticks' = n
    /\ UNCHANGED <<registers, enable_ime, cycles, execution_state,
                   interrupt_flags, interrupt_enable, ie_value, buttons, timer,
                   ppu, wram, dma, apu, panicked, ret, log, writes,
                   line_ticks, frame_ticks, frames, frame_vblanks>>

RtcSetup(s, m, h, dl, dh) ==
    /\ last_op.kind = "none"
    /\ RtcStored(CartridgeWriteAll(cart, RtcSetupWrites(s, m, h, dl, dh)),
                 "setup", 0, 0, nticks)

\* Cartridge::tick
RtcTick ==
    /\ last_op.kind # "none"
    /\ nticks < MaxRtcTicks
    /\ RtcStored(CartridgeTick(cart), "tick", 0, 0, nticks + 1)

\* a write of the latch or of the register select
RtcWrite(address, value) ==
    /\ last_op.kind # "none"
    /\ RtcStored(CartridgeWrite(cart, address, value), "write", address, value,
                 nticks)

\* a read of the selected register
RtcRead ==
    /\ last_op.kind # "none"
    /\ RtcStored(cart, "read", 40960, CartridgeReadRam(cart, 40960), nticks)

NextRtc ==
    \/ \E s \in RtcSeconds, m \in RtcMinutes, h \in RtcHours, dl \in RtcDaysLow,
          dh \in RtcDaysHigh : RtcSetup(s, m, h, dl, dh)
    \/ RtcTick
    \/ \E value \in {0, 1} : RtcWrite(24576, value)
    \/ \E reg \in 8..12 : RtcWrite(16384, reg)
    \/ RtcRead

\* Gameboy::new without a boot ROM for the MBC3 cartridge
RtcConstructed ==
    /\ \E phase \in RtcPhases :
          cart = [CartridgeNew(HeaderMbc3Rtc, FALSE, "banked")
                     EXCEPT !.rtc_cycles = phase]
    /\ registers = RegistersNewPostBootrom /\ ppu = PpuNewPostBootrom
    /\ wram = <<>> /\ dma = DmaNone /\ apu = ApuNew /\ bus = BusNone
    /\ enable_ime = FALSE /\ cycles = 0 /\ execution_state = "Continue"
    /\ interrupt_flags = {} /\ interrupt_enable = {} /\ ie_value = 0
    /\ buttons = ButtonsNew /\ timer = TimerNew /\ panicked = FALSE
    /\ ret = 0 /\ nticks = 0 /\ last_op = Op("none", 0) /\ log = LogNew
    /\ writes = <<>> /\ line_ticks = 0 /\ frame_ticks = 0 /\ frames = 0
    /\ frame_vblanks = 0

SpecRtc == RtcConstructed /\ [][NextRtc]_vars

\* the seconds a clock t has counted
RtcTotal(t) == ((t.days * 24 + t.hours) * 60 + t.minutes) * 60 + t.seconds

\* the seconds of 512 days
RtcSpan == 512 * 24 * 60 * 60

\* the clock u is the clock t one second later: seconds carry into
\* minutes, minutes into hours, hours into the days, and the days wrap
\* past 511 with the carry bit set
SecondLater(t, u) ==
    /\ u.seconds < 60 /\ u.minutes < 60 /\ u.hours < 24 /\ u.days < 512
    /\ RtcTotal(u) = (RtcTotal(t) + 1) % RtcSpan
    /\ u.carry <=> (t.carry \/ RtcTotal(t) + 1 = RtcSpan)
    /\ u.halt = t.halt

\* what a read of register reg returns from cartridge c
RtcRegisterRead(c, reg) == CartridgeReadRam([c EXCEPT !.ram_bank = reg], 40960)

\* C33: with halt clear the tick that completes cycles_per_second cycles
\* makes the clock one second later, carries included, and no other tick
\* changes it; with halt set a tick changes neither the clock nor what a
\* read of the seconds, minutes or hours returns.
C33_RtcAdvances ==
    bus.kind = "tick" =>
        IF bus.before.current_time.halt
        THEN /\ cart.current_time = bus.before.current_time
             /\ \A reg \in 8..10 :
                   RtcRegisterRead(cart, reg) = RtcRegisterRead(bus.before, reg)
        ELSE /\ cart.rtc_cycles = (bus.before.rtc_cycles + 4) % CYCLES_PER_SECOND
             /\ IF cart.rtc_cycles = 0
                THEN SecondLater(bus.before.current_time, cart.current_time)
                ELSE cart.current_time = bus.before.current_time

\* C33 witness: a tick took the clock from day 511, 23:59:59 to day 0 with
\* the carry bit set
C33_Witness ==
    /\ bus.kind = "tick"
    /\ bus.before.current_time.days = 511
    /\ ~bus.before.current_time.carry
    /\ cart.current_time.days = 0
    /\ cart.current_time.carry
    /\ cart.current_time.seconds = 0

----------------------------------------------------------------------------
(* The Joypad interrupt request, on the machine of Spec.                  *)

\* C34: once the Joypad bit of IF is clear after a step of the CPU (the
\* request of every earlier press has been raised by a tick of that step
\* and cleared by a dispatch or a write of FF0F), a further step of the CPU
\* that is not itself a write of IF (LDH (a8),A) leaves it clear: only
\* another button press requests the interrupt again.
C34_JoypadRequestedOnce ==
    [][(/\ last_op.kind \notin {"button", "none"}
        /\ Joypad \notin interrupt_flags
        /\ last_op'.kind # "button"
        /\ last_op'.opcode # 224)
          => Joypad \notin interrupt_flags']_vars

----------------------------------------------------------------------------
(* Accesses that index outside the images, on the cartridges of SpecCart. *)

\* C35: whatever was written to the registers at 0000-7FFF, an access to
\* 0000-7FFF or A000-BFFF indexes neither image out of bounds and reaches
\* no panic: the machine goes on.
C35_AccessesAbsorbed == ~panicked

----------------------------------------------------------------------------
(* The audio deltas.  The program switches the APU on, fills wave RAM,    *)
(* sets the volume, the panning and the registers of channel 3 and        *)
(* triggers it; then the APU is ticked and the frontend drains the deltas *)
(* (after every instruction, or later when the debugger stepped in        *)
(* between).  Here log holds the part of the Apu that shapes the samples: *)
(* the number of deltas recorded, their offset, the two amplitudes and    *)
(* the position of channel 3 in its wave; the channels 1, 2 and 4 are     *)
(* never triggered and add the 0 of a channel that is off.  nticks counts *)
(* the ticks since the last drain.                                        *)

\* Cpu::MAX_TICKS_PER_INSTR and the length of left_deltas, right_deltas
\* and delta_offsets
MAX_TICKS_PER_INSTR == 24
DeltaCapacity == 12

\* the APU is ticked at most this many times without a drain
MaxDeltaTicks == 13

\* the sample state of Apu::new
SamplerNew ==
    [delta_count |-> 0, delta_offset |-> 0, amplitude_left |-> 0,
     amplitude_right |-> 0, ch3_cycles |-> 0, wave_pattern_index |-> 0,
     overflow |-> FALSE]

\* the start of Apu::tick (apu.rs 495-499): deltas nobody fetched are dropped
SkipUnfetched(s) ==
    IF s.delta_offset >= MAX_TICKS_PER_INSTR * 2
    THEN [s EXCEPT !.delta_count = 0, !.delta_offset = 0]
    ELSE s

\* the trigger of channel 3 restarts the wave (apu.rs 539-541)
Ch3Restart(a, s) ==
    IF a.ch3_dac_enable /\ a.ch3_trigger
    THEN [s EXCEPT !.wave_pattern_index = 0]
    ELSE s

\* the step of channel 3 within a sample (apu.rs 636-641)
Ch3Step(a, s) ==
    IF 3 \notin a.channels THEN s
    ELSE IF s.ch3_cycles + 1 = WAVELEN_MAX
    THEN [s EXCEPT !.ch3_cycles = a.ch3_wavelen,
                   !.wave_pattern_index = (@ + 1) % 32]
    ELSE [s EXCEPT !.ch3_cycles = @ + 1]

\* the nibble of the wave at the index, shifted by the output level
Ch3Nibble(a, s) ==
    IF s.wave_pattern_index % 2 = 0
    THEN a.wave_pattern[s.wave_pattern_index \div 2] \div 16
    ELSE a.wave_pattern[s.wave_pattern_index \div 2] % 16

\* the amplitude of channel 3 (apu.rs 643-658)
Ch3Amp(a, s) ==
    IF 3 \notin a.channels THEN 0
    ELSE IF a.ch3_out_level = 0 THEN 8
    ELSE 8 - (Ch3Nibble(a, s) \div Pow2(a.ch3_out_level - 1))

\* the amplitude of a side (apu.rs 660-677), channel 3 being bit 2 of the
\* panning nibble
MixedLeft(a, amp) ==
    (IF Bit(a.sound_panning.left, 2) = 1 THEN amp ELSE 0)
        * a.master_vol_vin_pan.left_volume * 64
MixedRight(a, amp) ==
    (IF Bit(a.sound_panning.right, 2) = 1 THEN amp ELSE 0)
        * a.master_vol_vin_pan.right_volume * 64

\* the delta of a sample is recorded (apu.rs 679-685); the index
\* delta_count beyond the arrays is a panic
Recorded(s, left, right) ==
    [s EXCEPT !.delta_count =
                  IF (left # s.amplitude_left \/ right # s.amplitude_right)
                     /\ @ < DeltaCapacity
                  THEN @ + 1 ELSE @,
              !.overflow =
                  (left # s.amplitude_left \/ right # s.amplitude_right)
                  /\ s.delta_count >= DeltaCapacity,
              !.amplitude_left = left,
              !.amplitude_right = right,
              !.delta_offset = @ + 2]

\* one pass of the loop over the two samples of a tick
Mixed(a, s) == Recorded(s, MixedLeft(a, Ch3Amp(a, s)), MixedRight(a, Ch3Amp(a, s)))
OneSample(a, s) == IF s.overflow THEN s ELSE Mixed(a, Ch3Step(a, s))

\* the sample part of Apu::tick: a is the APU before the tick
ApuTickSamples(a, s) ==
    IF ~a.enable_apu THEN SkipUnfetched(s)
    ELSE OneSample(ApuTick(a),
                   OneSample(ApuTick(a), Ch3Restart(a, SkipUnfetched(s))))

\* Apu::deltas
ApuDeltas(s) == [s EXCEPT !.delta_count = 0, !.delta_offset = 0]

\* the bytes of a setup: wave RAM (a square wave, silence), the period of
\* channel 3 (one sample, two samples), NR50 and NR51 (full volume with
\* channel 3 on both sides, volume 0)
WaveBytes == {15, 0}
WavelenLows == {255, 254}
MixBytes == {<<119, 68>>, <<0, 68>>}

DeltaSetupWrites(wave, low, mix) ==
    <<<<65318, 128>>>>
        \o [i \in 1..16 |-> <<65327 + i, wave>>]
        \o <<<<65316, mix[1]>>, <<65317, mix[2]>>, <<65306, 128>>, <<65308, 32>>,
             <<65309, low>>, <<65310, 135>>>>

DeltaStored(a, s, kind, n) ==
    /\ apu' = a
    /\ log' = s
    /\ panicked' = s.overflow
    /\ last_op' = Op(kind, 0)
    /\ nticks' = n
    /\ UNCHANGED <<registers, enable_ime, cycles, execution_state,
                   interrupt_flags, interrupt_enable, ie_value, buttons, timer,
                   ppu, wram, dma, cart, bus, ret, writes, line_ticks,
                   frame_ticks, frames, frame_vblanks>>

DeltaSetup(wave, low, mix) ==
    /\ last_op.kind = "none"
    /\ DeltaStored(ApuWriteAll(apu, DeltaSetupWrites(wave, low, mix)), SamplerNew,
                   "setup", 0)

\* Apu::tick
DeltaTick ==
    /\ last_op.kind # "none"
    /\ ~panicked
    /\ nticks < MaxDeltaTicks
    /\ DeltaStored(ApuTick(apu), ApuTickSamples(apu, log), "tick", nticks + 1)

\* the frontend fetches the deltas
DeltaDrain ==
    /\ last_op.kind = "tick"
    /\ ~panicked
    /\ DeltaStored(apu, ApuDeltas(log), "drain", 0)

NextDelta ==
    \/ \E wave \in WaveBytes, low \in WavelenLows, mix \in MixBytes :
          DeltaSetup(wave, low, mix)
    \/ DeltaTick
    \/ DeltaDrain

SpecDelta == Constructed /\ [][NextDelta]_vars

\* C36: however many ticks pass between two drains, no more deltas are
\* recorded than the buffers hold and no delta is written past their end.
C36_DeltasFit ==
    last_op.kind \in {"tick", "drain"} =>
        (~log.overflow /\ log.delta_count <= DeltaCapacity)

----------------------------------------------------------------------------
(* The boot image while it is mapped, under the accesses of the boot ROM   *)
(* latch above.                                                            *)

\* the boot ROM is mapped: the machine was built with one and no nonzero
\* byte has reached FF50
BootromMapped == cart.bootrom /\ cart.bootrom_enabled

\* C37: while the boot ROM is enabled every read of 0000-00FF returns the
\* byte the boot image held at construction, whatever was written to the
\* first page before, and a read at 0100 returns the byte of the cartridge
\* without indexing the boot image.
C37_BootImageFixed ==
    (BootromMapped /\ bus.kind = "read") =>
        bus.value = IF bus.address <= 255 THEN BootromByte
                    ELSE RomAt(cart, bus.address, 0)

----------------------------------------------------------------------------
(* The clock of the MBC3 through a save: Cartridge::save_data on the       *)
(* running cartridge, then Cartridge::new with that save, among the        *)
(* operations of the clock above.  The wall clock has advanced by the      *)
(* seconds bus.value between the two.                                      *)

\* the seconds of wall-clock time between the save and the load
ElapsedSeconds == {0, 1}

\* RtcRegisters::serialize: five little-endian u32
RtcSerialize(t) == <<t.seconds, t.minutes, t.hours, t.days % 256, t.days \div 256>>

\* RtcRegisters::parse: the five words cut to their registers, carry and
\* halt taken from the fifth by set_days_high_byte
RtcParse(w) ==
    SetDaysHighByte([seconds |-> w[1] % 256, minutes |-> w[2] % 256,
                     hours |-> w[3] % 256, days |-> w[4] % 65536,
                     carry |-> FALSE, halt |-> FALSE],
                    w[5] % 256)

\* Mbc3::rtc_data at the wall-clock second now
Mbc3RtcData(c, now) ==
    [current |-> RtcSerialize(c.current_time),
     latched |-> RtcSerialize(c.latched_time),
     timestamp |-> now]

\* the closure carry_add of Mbc3::set_rtc_data: a + b + prev_carry on u8
\* with the carry out
CarryAdd(a, b, prev_carry) ==
    [sum |-> (a + b + prev_carry) % 256,
     carry |-> IF a + b + prev_carry > 255 THEN 1 ELSE 0]

\* the days of set_rtc_data: past 511 they lose 511 and set the carry bit
RtcDaysAdvanced(t, days) ==
    IF days > 511 THEN [t EXCEPT !.days = days - 511, !.carry = TRUE]
    ELSE [t EXCEPT !.days = days]

\* the clock t of set_rtc_data delta seconds later
RtcAdvanced(t, delta) ==
    RtcDaysAdvanced(
        [t EXCEPT
            !.seconds = CarryAdd(delta % 60, t.seconds, 0).sum,
            !.minutes = CarryAdd((delta % 3600) \div 60, t.minutes,
                                 CarryAdd(delta % 60, t.seconds, 0).carry).sum,
            !.hours = CarryAdd((delta % 86400) \div 3600, t.hours,
                               CarryAdd((delta % 3600) \div 60, t.minutes,
                                        CarryAdd(delta % 60, t.seconds, 0).carry).carry).sum],
        t.days + (IF delta \div 86400 < 511 THEN delta \div 86400 ELSE 511)
          + CarryAdd((delta % 86400) \div 3600, t.hours,
                     CarryAdd((delta % 3600) \div 60, t.minutes,
                              CarryAdd(delta % 60, t.seconds, 0).carry).carry).carry)

\* Mbc3::set_rtc_data at the wall-clock second now
Mbc3SetRtcData(c, data, now) ==
    IF ~c.has_rtc THEN c
    ELSE [c EXCEPT
            !.current_time =
                IF now > data.timestamp /\ ~RtcParse(data.current).halt
                THEN RtcAdvanced(RtcParse(data.current), now - data.timestamp)
                ELSE RtcParse(data.current),
            !.latched_time = RtcParse(data.latched)]

\* Cartridge::new with the save of cartridge c taken delta seconds before:
\* the RAM of the save, a new mapper, the clock of the save
CartridgeReloaded(c, delta) ==
    Mbc3SetRtcData([CartridgeNew(HeaderMbc3Rtc, FALSE, "banked")
                       EXCEPT !.ram = c.ram],
                   Mbc3RtcData(c, 0), delta)

\* Cartridge::save_data, then Cartridge::new with the save, once in a
\* session: the reloaded cartridge is read and written but ticked no more
RtcReload(delta) ==
    /\ last_op.kind # "none"
    /\ nticks < MaxRtcTicks
    /\ RtcStored(CartridgeReloaded(cart, delta), "reload", 0, delta, MaxRtcTicks)

NextRtcSave ==
    \/ NextRtc
    \/ \E delta \in ElapsedSeconds : RtcReload(delta)

SpecRtcSave == RtcConstructed /\ [][NextRtcSave]_vars

\* C38: a save loaded with no wall-clock time elapsed restores the current
\* and the latched registers of the clock, day bit 8, halt and carry
\* included.
C38_RtcRoundTrip ==
    (last_op.kind = "reload" /\ bus.value = 0) =>
        /\ cart.current_time = bus.before.current_time
        /\ cart.latched_time = bus.before.latched_time

----------------------------------------------------------------------------
(* Calls and returns: a program that points SP into work RAM and then      *)
(* runs CALL a16, CALL NZ,a16, CALL Z,a16, RET and NOP in any order, on    *)
(* the two constructions of Cpu::new (after the boot ROM the Z flag is     *)
(* set, with a boot ROM it is clear).  bus keeps the pc and sp a taken     *)
(* call found, until the instruction after the call has run.               *)

\* run_instruction is taken while the cycle counter is below this bound
MaxCallCycles == 72

\* the operand bytes of LD SP,d16: D000, in work RAM
StackTop == <<0, 208>>

\* CALL NZ,a16, CALL Z,a16 and CALL a16
CallOpcodes == {196, 204, 205}

\* the instructions of the program after its LD SP,d16
CallProgram == CallOpcodes \cup {0, 201}

\* the operand bytes: 0150 and 4000 as call targets
CallOperands(opcode) ==
    IF opcode \in CallOpcodes THEN {<<80, 1>>, <<0, 64>>} ELSE {<<0, 0>>}

\* what bus keeps after the instruction opcode left machine m: the pc and
\* sp before a call that pushed, the same marked as returned when the next
\* instruction is RET
CallSeen(m, opcode) ==
    IF opcode \in CallOpcodes /\ m.registers.sp # registers.sp
    THEN Bus("call", registers.pc, registers.sp, 0)
    ELSE IF opcode = 201 /\ bus.kind = "call"
    THEN Bus("returned", bus.address, bus.value, 0)
    ELSE BusNone

\* the end of Gameboy::run_instruction for the instruction opcode
CallReturned(m, opcode) ==
    /\ Store(m)
    /\ ret' = m.cycles - cycles
    /\ nticks' = m.nticks
    /\ last_op' = m.op
    /\ writes' = m.writes
    /\ bus' = CallSeen(m, opcode)
    /\ UNCHANGED <<line_ticks, frame_ticks, frames, frame_vblanks>>

\* LD SP,D000, the first instruction
CallSetup ==
    /\ last_op.kind = "none"
    /\ CallReturned(NextInstruction(Machine, 49, StackTop[1], StackTop[2]), 49)

\* Gameboy::run_instruction on an instruction of the program
CallStep(opcode, b1, b2) ==
    /\ last_op.kind # "none"
    /\ cycles < MaxCallCycles
    /\ CallReturned(NextInstruction(Machine, opcode, b1, b2), opcode)

NextCall ==
    \/ CallSetup
    \/ \E opcode \in CallProgram : \E b \in CallOperands(opcode) :
          CallStep(opcode, b[1], b[2])

SpecCall == Constructed /\ [][NextCall]_vars

\* C39: a RET that follows a taken CALL (a16 or cc,a16) at once returns to
\* the instruction after the three bytes of the CALL, with SP as it was
\* before the CALL.
C39_CallReturns ==
    bus.kind = "returned" =>
        /\ registers.pc = Wrap16(bus.address + 3)
        /\ registers.sp = bus.value
====
